---- MODULE Spec2Model ----
(***************************************************************************)
(* Scrape pipeline of the homers metrics exporter:                         *)
(*   task registry (config.rs)  ->  executor (http_server.rs)              *)
(*   -> provider adapters (providers/*.rs) -> encoder (prometheus.rs)      *)
(*   -> HTTP response (http_server.rs).                                    *)
(***************************************************************************)
EXTENDS Integers, Sequences, FiniteSets, TLC

VARIABLES
    API_KEY,    \* static API_KEY of the sonarr module: the process-wide key
    INIT,       \* static INIT of the sonarr module: the Once has run
    handles,    \* the Sonarr handles constructed so far, in order
    sent,       \* the requests the handles have sent
    clock,      \* SystemTime::now() of the host, in Unix seconds
    config,     \* the Config read at startup, until get_tasks has taken it
    tasks,      \* AppState.tasks: the task registry built at startup
    format,     \* Format negotiated for the scrape in progress
    phase,      \* position of the /metrics handler
    pc,         \* pc[i]: position of the i-th task future of process_tasks
    op,         \* op[i]: index of the adapter operation task i is in
    calls,      \* calls[i][k]: requests task i issued for its k-th operation
    got,        \* got[i]: classes of the upstream replies task i received
    part,       \* part[i]: what the adapter calls of task i returned so far
    results,    \* the Vec<TaskResult> process_tasks returned
    response,   \* the HTTP response of the scrape
    requests,   \* get_overseerr_requests: the upstream requests get_requests gave
    futures_requests,   \* get_overseerr_requests: the futures handed to join_all
    overseerr_requests, \* get_overseerr_requests: the vector it returns
    directory,  \* get_all_library_size: libraries_container.directory
    sent_keys,  \* get_all_library_size: the keys get_library_items was called with
    item_replies,   \* get_all_library_size: the replies get_library_items had
    library_infos,  \* get_all_library_size: the LibraryInfos pushed so far
    library_size    \* get_all_library_size: the vector it returns

\* the locals of one call of Overseerr::get_overseerr_requests
title_locals == <<requests, futures_requests, overseerr_requests>>

\* the locals of one call of Plex::get_all_library_size
library_locals == <<directory, sent_keys, item_replies, library_infos, library_size>>

locals == <<title_locals, library_locals>>

vars == <<API_KEY, INIT, handles, sent, clock, config, tasks, format, phase, pc, op, calls, got, part, results, response, locals>>

(***************************** bounds **************************************)
MaxTasks == 3       \* configurations with at most this many tasks
MaxInstances == 1   \* instances per named map section of the configuration
MaxSessions == 2    \* sessions in one encoded session result
MaxUsers == 2       \* known users in one encoded session result
MaxResults == 2     \* task results in one encoded result list
MaxCalls == 2       \* requests one task may send for one adapter call in one scrape
MaxEntries == 3     \* entries in one encoded Tautulli history result

(***************************** helpers *************************************)
\* Option<T>: None is the empty sequence, Some(v) the one-element sequence.
None == <<>>

Some(v) == <<v>>

NoShape == "-"

Range(s) == {s[i] : i \in DOMAIN s}

RECURSIVE SeqsUpTo(_, _)
SeqsUpTo(S, n) ==
    IF n = 0 THEN {<<>>}
    ELSE LET shorter == SeqsUpTo(S, n - 1)
         IN  shorter \cup {Append(s, x) : s \in {t \in shorter : Len(t) = n - 1}, x \in S}

DistinctSeqsUpTo(S, n) ==
    {s \in SeqsUpTo(S, n) : \A i, j \in DOMAIN s : i # j => s[i] # s[j]}

RECURSIVE SumSeq(_)
SumSeq(s) == IF s = <<>> THEN 0 ELSE Head(s) + SumSeq(Tail(s))

RECURSIVE Flatten(_)
Flatten(ss) == IF ss = <<>> THEN <<>> ELSE Head(ss) \o Flatten(Tail(ss))


(********************* task registry (config.rs) ***************************)
\* The instance names of a map section: as many as the section may hold.
InstanceNames == {<<"a", "b", "c">>[i] : i \in 1..MaxInstances}

NoName == ""

\* Address strings are sequences of characters.
Http == <<"h", "t", "t", "p", ":", "/", "/", "h">>

\* The address strings a section of the configuration can supply.
Addresses ==
    {Http, Http \o <<"/">>, Http \o <<"/", "/">>, Http \o <<"/", "x">>,
     Http \o <<"/", "x", "/">>, <<"/">>, <<"/", "/">>, <<>>}

Instance(name, address) == [name |-> name, address |-> address]

\* The iteration orders a HashMap<String, _> section over the addresses A can
\* take: every instance name at most once.
InstanceMaps(A) ==
    {m \in SeqsUpTo({Instance(n, a) : n \in InstanceNames, a \in A}, MaxInstances) :
        \A i, j \in DOMAIN m : i # j => m[i].name # m[j].name}

\* Config: every section is an Option; a map section holds instances, a
\* single section its address.
AllConfigs(M, A) ==
    LET maps == {None} \cup {Some(m) : m \in M}
        single == {None} \cup {Some(a) : a \in A}
    IN  [sonarr : maps, radarr : maps, readarr : maps, lidarr : maps, plex : maps,
         jellyfin : maps, tautulli : single, overseerr : single, jellyseerr : single]

\* Config::default(): no provider section
DefaultConfig ==
    [sonarr |-> None, radarr |-> None, readarr |-> None, lidarr |-> None, plex |-> None,
     jellyfin |-> None, tautulli |-> None, overseerr |-> None, jellyseerr |-> None]

\* remove_trailing_slash: s without its last character when that is a slash
remove_trailing_slash(s) ==
    IF s # <<>> /\ s[Len(s)] = "/" THEN SubSeq(s, 1, Len(s) - 1) ELSE s

\* The address the constructor of a provider keeps in its handle.
HandleAddress(kind, address) ==
    CASE kind = "Radarr" -> address \o <<"/", "a", "p", "i", "/", "v", "3">>
      [] kind \in {"Readarr", "Lidarr"} -> address \o <<"/", "a", "p", "i", "/", "v", "1">>
      [] OTHER -> address

Task(kind, name, address) == [kind |-> kind, name |-> name, address |-> address]

\* for (name, s) in section: a client on the normalised address, one task per
\* kind with (a clone of) it
PerInstance(section, kinds) ==
    IF section = None THEN <<>>
    ELSE Flatten([i \in DOMAIN section[1] |->
                    [k \in DOMAIN kinds |->
                        Task(kinds[k], section[1][i].name,
                             HandleAddress(kinds[k],
                                           remove_trailing_slash(section[1][i].address)))]])

\* A single section that gives a task for its first kind only.
SingleFirst(section, kinds) ==
    IF section = None THEN <<>>
    ELSE <<Task(kinds[1], NoName, HandleAddress(kinds[1], remove_trailing_slash(section[1])))>>

\* if let Some(section): one client on the normalised address, one task per
\* kind with (a clone of) it
Single(section, kinds) ==
    IF section = None THEN <<>>
    ELSE [k \in DOMAIN kinds |->
            Task(kinds[k], NoName, HandleAddress(kinds[k], remove_trailing_slash(section[1])))]

get_tasks(c) ==
    PerInstance(c.sonarr, <<"SonarrToday", "SonarrMissing">>)
    \o Single(c.tautulli, <<"TautulliSession", "TautulliLibrary", "TautulliHistory">>)
    \o PerInstance(c.radarr, <<"Radarr">>)
    \o PerInstance(c.readarr, <<"Readarr">>)
    \o PerInstance(c.lidarr, <<"Lidarr">>)
    \o Single(c.overseerr, <<"Overseerr">>)
    \o Single(c.jellyseerr, <<"Jellyseerr">>)
    \o PerInstance(c.plex, <<"PlexSession", "PlexLibrary">>)
    \o PerInstance(c.jellyfin, <<"JellyfinSession", "JellyfinLibrary">>)

\* The number of tasks a configuration asks for.
NumTasks(c) ==
    LET n(section) == IF section = None THEN 0 ELSE Len(section[1])
    IN  2 * n(c.sonarr) + n(c.radarr) + n(c.readarr) + n(c.lidarr) + 2 * n(c.plex)
        + 2 * n(c.jellyfin) + 3 * Len(c.tautulli) + Len(c.overseerr) + Len(c.jellyseerr)

\* A map of k instances that holds the first k instance names: what the
\* instances of a section are called makes no difference to the pipeline.
FirstNames(m) == {m[i].name : i \in DOMAIN m} = {<<"a", "b", "c">>[i] : i \in 1..Len(m)}

\* The configurations of the scrape pipeline: every combination of absent,
\* empty and filled sections, all on one address.
Configs ==
    LET A == {Http \o <<"/">>}
    IN  {c \in AllConfigs({m \in InstanceMaps(A) : FirstNames(m)}, A) :
            NumTasks(c) <= MaxTasks}

\* The configurations of the startup on its own: one section, over every
\* address.
RegConfigs ==
    LET with(f, section) == [DefaultConfig EXCEPT ![f] = section]
        one == {with(f, Some(m)) :
                    f \in {"sonarr", "radarr", "readarr", "lidarr", "plex", "jellyfin"},
                    m \in InstanceMaps(Addresses)}
               \cup {with(f, Some(a)) : f \in {"tautulli", "overseerr", "jellyseerr"},
                                        a \in Addresses}
    IN  {DefaultConfig} \cup {c \in one : NumTasks(c) <= MaxTasks}

TaskKinds ==
    {"SonarrToday", "SonarrMissing", "Radarr", "Readarr", "Lidarr", "Overseerr",
     "Jellyseerr", "TautulliSession", "TautulliLibrary", "TautulliHistory",
     "PlexSession", "PlexLibrary", "JellyfinSession", "JellyfinLibrary"}

\* The Task variants get_tasks builds for which this revision of
\* process_tasks has no match arm; their arms follow the executor contract:
\* one adapter call, its vector wrapped in the variant of the same name.
MissingArms == {"Readarr", "Lidarr", "TautulliHistory"}

OpsMissingArm(kind) ==
    CASE kind = "Readarr" -> <<"author">>
      [] kind = "Lidarr" -> <<"artist">>
      [] kind = "TautulliHistory" -> <<"get_history">>

\* The adapter operations a task awaits, in source order.
Ops(kind) ==
    CASE kind = "SonarrToday" -> <<"calendar_today">>
      [] kind = "SonarrMissing" -> <<"calendar_week">>
      [] kind = "Radarr" -> <<"movie">>
      [] kind \in MissingArms -> OpsMissingArm(kind)
      [] kind = "Overseerr" -> <<"request">>
      [] kind = "Jellyseerr" -> <<"request">>
      [] kind = "TautulliSession" -> <<"get_activity">>
      [] kind = "TautulliLibrary" -> <<"get_libraries">>
      [] kind = "PlexSession" -> <<"plex_sessions", "plex_statistics">>
      [] kind = "PlexLibrary" -> <<"plex_sections">>
      [] kind = "JellyfinSession" -> <<"jellyfin_sessions", "jellyfin_users">>
      [] kind = "JellyfinLibrary" -> <<"jellyfin_counts">>

(************************ upstream replies **********************************)
\* What a backend can answer to one request: the transport fails (send() is
\* Err), the body does not decode into the expected type (json() is Err; this
\* is also where an upstream error page ends), or the body decodes.  shape
\* names the variant an untagged serde enum decoded into.
TransportError == [k |-> "transport_error", shape |-> NoShape, data |-> <<>>]
Undecodable == [k |-> "undecodable", shape |-> NoShape, data |-> <<>>]
Body(shape, data) == [k |-> "body", shape |-> shape, data |-> data]

cal1 == [season_number |-> 1, episode_number |-> 1, title |-> "Test", serie |-> "Test",
         air_date |-> "2024-01-01", has_file |-> TRUE]
cal2 == [season_number |-> 1, episode_number |-> 12, title |-> "Next", serie |-> "Test",
         air_date |-> "2024-01-02", has_file |-> FALSE]

Matrix == [title |-> "Matrix", has_file |-> TRUE, monitored |-> TRUE, is_available |-> TRUE]
Dune == [title |-> "Dune", has_file |-> FALSE, monitored |-> TRUE, is_available |-> TRUE]
Old == [title |-> "Old", has_file |-> FALSE, monitored |-> FALSE, is_available |-> FALSE]
Heat == [title |-> "Heat", has_file |-> TRUE, monitored |-> TRUE, is_available |-> FALSE]
Alien == [title |-> "Alien", has_file |-> TRUE, monitored |-> FALSE, is_available |-> TRUE]
Tenet == [title |-> "Tenet", has_file |-> TRUE, monitored |-> FALSE, is_available |-> FALSE]
Jaws == [title |-> "Jaws", has_file |-> FALSE, monitored |-> FALSE, is_available |-> TRUE]
Solaris == [title |-> "Solaris", has_file |-> FALSE, monitored |-> TRUE, is_available |-> FALSE]

artist1 == [artist_name |-> "Muse", monitored |-> TRUE, track_file_count |-> 2]
author1 == [author_name |-> "Herbert", monitored |-> FALSE, book_file_count |-> 1]

\* An Overseerr request with the outcome of its media-title fetch.
req1 == [media_type |-> "movie", id |-> 7, tmdb_id |-> 603, status |-> 2, media_status |-> 5,
         username |-> Some("alice"), plex_username |-> None, created_at |-> "2024-01-01",
         title_reply |-> Body("movie", <<"Matrix">>)]
req2 == [media_type |-> "tv", id |-> 8, tmdb_id |-> 1399, status |-> 9, media_status |-> 0,
         username |-> None, plex_username |-> None, created_at |-> "2024-01-02",
         title_reply |-> TransportError]

tsession1 == [user |-> "alice", title |-> "Pilot", grandparent_title |-> "The Wire",
              state |-> "playing", progress_percent |-> "55", video_full_resolution |-> "1080p",
              quality_profile |-> "Original", video_decision |-> "direct play",
              media_type |-> "episode", parent_media_index |-> "1", media_index |-> "3",
              ip_address |-> "192.168.1.10", ip_address_public |-> "203.0.113.5"]
tlibrary1 == [section_name |-> "Movies", section_type |-> "movie", count |-> "500",
              parent_count |-> None, child_count |-> None, is_active |-> 1]

video_stream == [stream_type |-> 1, display_title |-> "1080p", decision |-> None]
audio_stream == [stream_type |-> 2, display_title |-> "AAC", decision |-> Some("copy")]
PlexMeta(user, title, media, location, bandwidth) ==
    [variant |-> "SessionMetadata", title |-> title, grand_parent_title |-> None,
     index |-> None, parent_index |-> None, type_field |-> "movie", media |-> media,
     user |-> user, view_offset |-> 30,
     player |-> [state_field |-> "playing", platform |-> "Chrome", local |-> TRUE,
                 secure |-> TRUE, relayed |-> FALSE, address |-> "192.168.1.10",
                 remote_public_address |-> "203.0.113.5"],
     session |-> [location |-> location, bandwidth |-> bandwidth]]
MediaWith(decision, streams) ==
    <<[duration |-> 100, part |-> <<[decision |-> decision, stream |-> streams]>>]>>
Media(streams) == MediaWith("directplay", streams)
pmeta_ok == PlexMeta("alice", "Dune", Media(<<video_stream, audio_stream>>), "lan", 2)
\* a music track: decodes as SessionMetadata, its part has no video stream
pmeta_track == PlexMeta("bob", "Song", Media(<<audio_stream>>), "wan", 1)
\* a live session whose Media list is empty
pmeta_nomedia == PlexMeta("bob", "Live", <<>>, "wan", 1)
\* an entry that only decodes as the catch-all Metadata::Default
pmeta_default == [variant |-> "Default"]

plib_movies == [key |-> "1", title |-> "Movies", type_field |-> "movie",
                items |-> Body("LibraryItemsContainer",
                               <<[size |-> 2, metadata |-> <<>>]>>)]
plib_shows == [key |-> "2", title |-> "TV", type_field |-> "show",
               items |-> Body("LibraryItemsContainer",
                              <<[size |-> 1, metadata |->
                                   <<[variant |-> "LibraryMetadata", child_count |-> 2,
                                      leaf_count |-> 5]>>]>>)]

jsession1 == [user_name |-> "carol", client |-> "Web", remote_end_point |-> "10.0.0.2",
              now_playing_item |-> Some([name |-> "Heat", type_field |-> "Movie",
                                         run_time_ticks |-> 100, index_number |-> None,
                                         parent_index_number |-> None,
                                         media_streams |-> <<[type_field |-> "Video",
                                                              display_title |-> Some("4K"),
                                                              title |-> None]>>]),
              play_state |-> [position_ticks |-> Some(50), is_paused |-> Some(FALSE),
                              play_method |-> Some("DirectPlay")],
              transcoding_info |-> None]
jcounts1 == [movie_count |-> 3, series_count |-> 2, episode_count |-> 9, artist_count |-> 1,
             song_count |-> 4, album_count |-> 1, book_count |-> 0]

\* SystemTime::now().duration_since(UNIX_EPOCH).as_secs()
Now == clock

\* The times the clock of the host is looked at.
Times == {200000, 250000, 290000}

hentry1 == [date |-> 199000, user |-> "alice", friendly_name |-> "", media_type |-> "movie",
            watched_status |-> 1]
hentry2 == [date |-> 1000, user |-> "bob", friendly_name |-> "Bobby", media_type |-> "movie",
            watched_status |-> 1]

\* The replies the model lets a backend give to each request.
Replies(opname) ==
    {TransportError, Undecodable} \cup
    CASE opname \in {"calendar_today", "calendar_week"} ->
            {Body("calendars", <<>>), Body("calendars", <<cal1, cal2>>)}
      [] opname = "movie" ->
            {Body("movies", <<Matrix, Dune, Old>>),
             Body("movies", <<Heat, Alien, Tenet, Jaws, Solaris>>)}
      [] opname = "artist" -> {Body("artists", <<artist1>>)}
      [] opname = "author" -> {Body("authors", <<author1>>)}
      [] opname = "request" -> {Body("requests", <<req1, req2>>)}
      [] opname = "get_activity" ->
            {Body("Activity", <<tsession1>>), Body("Libraries", <<>>)}
      [] opname = "get_libraries" ->
            {Body("Libraries", <<tlibrary1>>), Body("Activity", <<>>)}
      [] opname = "get_history" ->
            {Body("History", <<[total_plays |-> 2, entries |-> <<hentry1, hentry2>>]>>)}
      [] opname = "plex_sessions" ->
            {Body("ActivityContainer", <<pmeta_ok, pmeta_default>>),
             Body("ActivityContainer", <<pmeta_track>>),
             Body("ActivityContainer", <<pmeta_nomedia>>),
             Body("Default", <<>>)}
      [] opname = "plex_statistics" ->
            {Body("StatisticsContainer", <<[name |-> "alice"], [name |-> "bob"]>>),
             Body("Default", <<>>)}
      [] opname = "plex_sections" ->
            {Body("LibraryContainer", <<plib_movies, plib_shows>>),
             Body("LibraryContainer", <<plib_movies, [plib_shows EXCEPT !.items = Undecodable]>>),
             Body("Default", <<>>)}
      [] opname = "jellyfin_sessions" -> {Body("sessions", <<jsession1>>)}
      [] opname = "jellyfin_users" -> {Body("users", <<[name |-> "carol"], [name |-> "dave"]>>)}
      [] opname = "jellyfin_counts" -> {Body("counts", <<jcounts1>>)}

\* The decisions Plex gives for the container (Part) of a session, and for
\* its video stream.
PartDecisions == {"directplay", "transcode", "copy"}

StreamDecisions == {None, Some("copy"), Some("transcode")}

DecisionMetas ==
    {PlexMeta("alice", "Dune",
              MediaWith(d, <<[video_stream EXCEPT !.decision = v], audio_stream>>), "lan", 2) :
        d \in PartDecisions, v \in StreamDecisions}

\* The replies a backend can give when the adapters are looked at on their
\* own: those of the pipeline and more payloads.
AdapterReplies(opname) ==
    Replies(opname) \cup
    CASE opname = "plex_sessions" -> {Body("ActivityContainer", <<m>>) : m \in DecisionMetas}
      [] OTHER -> {}

OpNames == UNION {Range(Ops(kind)) : kind \in TaskKinds}

AllAdapterReplies == UNION {AdapterReplies(opname) : opname \in OpNames}

AllReplies == UNION {Replies(opname) : opname \in OpNames}

(************************ provider adapters *********************************)
\* What a public adapter operation does with the reply: it returns a vector,
\* or it unwinds (panic!, unwrap() on None, index out of bounds).
Ret(v) == [panic |-> FALSE, out |-> v]
Panic == [panic |-> TRUE, out |-> <<>>]

IsErr(reply) == reply.k \in {"transport_error", "undecodable"}

\* "{:02}": at least two digits.
Pad2(n) == IF n < 10 THEN <<0, n>> ELSE <<n \div 10, n % 10>>

SonarrEpisode(calendar) ==
    [sxe |-> [s |-> Pad2(calendar.season_number), e |-> Pad2(calendar.episode_number)],
     season_number |-> calendar.season_number, episode_number |-> calendar.episode_number,
     title |-> calendar.title, serie |-> calendar.serie, air_date |-> calendar.air_date,
     has_file |-> calendar.has_file]

get_today_shows(reply) ==
    IF IsErr(reply) THEN Ret(<<>>)
    ELSE Ret([i \in DOMAIN reply.data |-> SonarrEpisode(reply.data[i])])

get_last_week_missing_shows(reply) ==
    IF IsErr(reply) THEN Ret(<<>>)
    ELSE LET eps == [i \in DOMAIN reply.data |-> SonarrEpisode(reply.data[i])]
         IN  Ret(SelectSeq(eps, LAMBDA ep : ~ep.has_file))

\* A movie counted as missing as soon as it has no file.
missing_without_file(movie) == ~movie.has_file

set_missing_movies(movie) == ~movie.has_file /\ movie.is_available

get_radarr_movies(reply) ==
    LET movies == IF IsErr(reply) THEN <<>> ELSE reply.data
    IN  Ret([i \in DOMAIN movies |->
               [title |-> movies[i].title, has_file |-> movies[i].has_file,
                monitored |-> movies[i].monitored, is_available |-> movies[i].is_available,
                missing_available |-> set_missing_movies(movies[i])]])

get_lidarr_artists(reply) ==
    LET artists == IF IsErr(reply) THEN <<>> ELSE reply.data
    IN  Ret([i \in DOMAIN artists |->
               [name |-> artists[i].artist_name, monitored |-> artists[i].monitored,
                track_file_count |-> artists[i].track_file_count]])

get_readarr_authors(reply) ==
    LET authors == IF IsErr(reply) THEN <<>> ELSE reply.data
    IN  Ret([i \in DOMAIN authors |->
               [name |-> authors[i].author_name, monitored |-> authors[i].monitored,
                book_file_count |-> authors[i].book_file_count]])

\* impl From<i64> for RequestStatus
RequestStatusFrom(status) ==
    CASE status = 1 -> "Pending"
      [] status = 2 -> "Approved"
      [] status = 3 -> "Declined"
      [] OTHER -> "Pending"

\* The position of the variant in the enum, which starts at 0.
RequestStatusDiscriminant(status) ==
    CASE status = "Pending" -> 0
      [] status = "Approved" -> 1
      [] status = "Declined" -> 2

\* RequestStatus::as_f64
RequestStatusAsF64(status) ==
    CASE status = "Pending" -> 1
      [] status = "Approved" -> 2
      [] status = "Declined" -> 3

\* impl From<i64> for MediaStatus
MediaStatusFrom(status) ==
    CASE status = 1 -> "Unknown"
      [] status = 2 -> "Pending"
      [] status = 3 -> "Processing"
      [] status = 4 -> "PartiallyAvailable"
      [] status = 5 -> "Available"
      [] OTHER -> "Unknown"

\* The position of the variant in the enum, which starts at 0.
MediaStatusDiscriminant(status) ==
    CASE status = "Unknown" -> 0
      [] status = "Pending" -> 1
      [] status = "Processing" -> 2
      [] status = "PartiallyAvailable" -> 3
      [] status = "Available" -> 4

\* MediaStatus::as_f64
MediaStatusAsF64(status) ==
    CASE status = "Unknown" -> 1
      [] status = "Pending" -> 2
      [] status = "Processing" -> 3
      [] status = "PartiallyAvailable" -> 4
      [] status = "Available" -> 5

get_username(request) ==
    IF request.username # None THEN request.username[1]
    ELSE IF request.plex_username # None THEN request.plex_username[1]
    ELSE "Unknown"

get_media_title(media_type, reply) ==
    IF IsErr(reply) THEN [ok |-> FALSE, title |-> ""]
    ELSE IF media_type \in {"movie", "tv"} THEN [ok |-> TRUE, title |-> reply.data[1]]
    ELSE [ok |-> TRUE, title |-> "Unknown"]

\* The future get_overseerr_requests makes of one upstream request: it awaits
\* the media title, puts "Unknown" for a failed fetch, and builds the record.
request_future(request, reply) ==
    LET t == get_media_title(request.media_type, reply)
    IN  [media_type |-> request.media_type, media_id |-> request.id,
         status |-> RequestStatusFrom(request.status),
         requested_by |-> get_username(request),
         media_status |-> MediaStatusFrom(request.media_status),
         media_title |-> IF t.ok THEN t.title ELSE "Unknown",
         requested_at |-> request.created_at]

get_overseerr_requests(reply) ==
    LET fetched == IF IsErr(reply) THEN <<>> ELSE reply.data
    IN  Ret([i \in DOMAIN fetched |-> request_future(fetched[i], fetched[i].title_reply)])

\* Geo resolver: the lookup service knows some addresses; every failure gives
\* the sentinel location.
get_ip_info(ip) ==
    IF ip = "203.0.113.5"
    THEN [city |-> "London", country |-> "UK", ip_address |-> ip,
          latitude |-> "51.50", longitude |-> "-0.12"]
    ELSE [city |-> "Unknown", country |-> "Unknown", ip_address |-> ip,
          latitude |-> "0.0", longitude |-> "0.0"]

SessionSummary(session) ==
    [user |-> session.user,
     title |-> IF session.media_type = "episode" THEN session.grandparent_title
               ELSE session.title,
     state |-> session.state, progress |-> session.progress_percent,
     quality |-> session.video_full_resolution, quality_profile |-> session.quality_profile,
     video_stream |-> session.video_decision, media_type |-> session.media_type,
     season_number |-> IF session.media_type = "episode"
                       THEN Some(session.parent_media_index) ELSE None,
     episode_number |-> IF session.media_type = "episode"
                        THEN Some(session.media_index) ELSE None,
     location |-> get_ip_info(session.ip_address)]

\* impl Into<Activity> for TautulliData panics on the other variant.
get_session_summary(reply) ==
    IF IsErr(reply) THEN Ret(<<>>)
    ELSE IF reply.shape # "Activity" THEN Panic
    ELSE Ret([i \in DOMAIN reply.data |-> SessionSummary(reply.data[i])])

\* impl Into<Vec<Library>> for TautulliData panics on the other variant.
get_libraries(reply) ==
    IF IsErr(reply) THEN Ret(<<>>)
    ELSE IF reply.shape # "Libraries" THEN Panic
    ELSE Ret(reply.data)

\* history() -> { total_plays, entries }; a failed call gives nothing.
get_history(reply) ==
    IF IsErr(reply) THEN [panic |-> FALSE, out |-> <<>>, total_plays |-> 0]
    ELSE [panic |-> FALSE, out |-> reply.data[1].entries,
          total_plays |-> reply.data[1].total_plays]

BandwidthLocationFrom(location) ==
    CASE location = "wan" -> "Wan" [] location = "lan" -> "Lan" [] OTHER -> "Unknown"

\* SessionMetadata::progress: media[0].duration
PlexProgress(meta) == (meta.view_offset * 100) \div meta.media[1].duration

PlexStreamDecision(decision, video_stream_decision) ==
    CASE decision = "directplay" -> "Direct Play"
      [] decision = "transcode" ->
            IF video_stream_decision = "copy" THEN "Direct Stream" ELSE "Transcode"
      [] OTHER -> "Transcode"

\* impl AsyncFrom<plex::SessionMetadata> for Session.  media[0], part[0] and
\* find(..).unwrap() unwind when the element is not there.
PlexSessionPanics(meta) ==
    \/ meta.media = <<>>
    \/ meta.media[1].part = <<>>
    \/ ~\E k \in DOMAIN meta.media[1].part[1].stream :
            meta.media[1].part[1].stream[k].stream_type = 1

PlexSessionFrom(meta) ==
    LET p == meta.media[1].part[1]
        vs == p.stream[CHOOSE k \in DOMAIN p.stream :
                         /\ p.stream[k].stream_type = 1
                         /\ \A j \in DOMAIN p.stream :
                               p.stream[j].stream_type = 1 => k <= j]
    IN  [title |-> IF meta.grand_parent_title # None THEN meta.grand_parent_title[1]
                   ELSE meta.title,
         user |-> meta.user,
         stream_decision |->
            PlexStreamDecision(p.decision,
                               IF vs.decision # None THEN vs.decision[1] ELSE "transcode"),
         media_type |-> meta.type_field, state |-> meta.player.state_field,
         progress |-> PlexProgress(meta), quality |-> vs.display_title,
         platform |-> meta.player.platform,
         location |-> get_ip_info(meta.player.remote_public_address),
         bandwidth |-> [bandwidth |-> meta.session.bandwidth,
                        location |-> BandwidthLocationFrom(meta.session.location)]]

PlexGetCurrentSessions(reply) ==
    IF IsErr(reply) THEN Ret(<<>>)
    ELSE IF reply.shape # "ActivityContainer" THEN Ret(<<>>)
    ELSE LET metas == SelectSeq(reply.data, LAMBDA m : m.variant = "SessionMetadata")
         IN  IF \E i \in DOMAIN metas : PlexSessionPanics(metas[i]) THEN Panic
             ELSE Ret([i \in DOMAIN metas |-> PlexSessionFrom(metas[i])])

PlexGetUsers(reply) ==
    IF IsErr(reply) THEN Ret(<<>>)
    ELSE IF reply.shape # "StatisticsContainer" THEN Ret(<<>>)
    ELSE Ret([i \in DOMAIN reply.data |-> [name |-> reply.data[i].name]])

MediaTypeFrom(media_type) ==
    CASE media_type = "movie" -> "Movie"
      [] media_type \in {"show", "shows"} -> "Show"
      [] media_type = "music" -> "Music"
      [] media_type = "book" -> "Book"
      [] OTHER -> "Unknown"

\* One directory of get_all_library_size, given the reply to its items request.
PlexLibraryInfos(item) ==
    LET c == item.items.data[1]
        metas == SelectSeq(c.metadata, LAMBDA m : m.variant = "LibraryMetadata")
    IN  [name |-> item.title, media_type |-> MediaTypeFrom(item.type_field),
         count |-> c.size,
         child_count |-> IF item.type_field = "show"
                         THEN Some(SumSeq([k \in DOMAIN metas |-> metas[k].child_count]))
                         ELSE None,
         grand_child_count |-> IF item.type_field = "show"
                               THEN Some(SumSeq([k \in DOMAIN metas |-> metas[k].leaf_count]))
                               ELSE None]

get_all_library_size(reply) ==
    IF IsErr(reply) THEN Ret(<<>>)
    ELSE IF reply.shape # "LibraryContainer" THEN Ret(<<>>)
    ELSE IF \E i \in DOMAIN reply.data :
                \/ IsErr(reply.data[i].items)
                \/ reply.data[i].items.shape # "LibraryItemsContainer"
         THEN Ret(<<>>)
         ELSE Ret([i \in DOMAIN reply.data |-> PlexLibraryInfos(reply.data[i])])

\* impl AsyncFrom<jellyfin::SessionResponse> for Session
JellyfinSessionFrom(session) ==
    LET playing == session.now_playing_item # None
        item == session.now_playing_item[1]
        videos == IF ~playing THEN <<>>
                  ELSE SelectSeq(item.media_streams, LAMBDA s : s.type_field = "Video")
    IN  [title |-> IF ~playing THEN "" ELSE item.name,
         user |-> session.user_name,
         stream_decision |->
            CASE session.play_state.play_method = None -> "None"
              [] session.play_state.play_method = Some("DirectPlay") -> "Direct Play"
              [] session.play_state.play_method = Some("Transcode") ->
                    IF session.transcoding_info # None
                       /\ session.transcoding_info[1].is_video_direct
                    THEN "Direct Stream" ELSE "Transcode"
              [] OTHER -> "Transcode",
         media_type |-> IF ~playing THEN "Unknown" ELSE item.type_field,
         state |-> CASE session.play_state.is_paused = None -> "Idle"
                     [] session.play_state.is_paused = Some(TRUE) -> "Paused"
                     [] OTHER -> IF playing THEN "Playing" ELSE "Idle",
         progress |-> IF session.play_state.position_ticks = None \/ ~playing THEN 0
                      ELSE (session.play_state.position_ticks[1] * 100)
                           \div item.run_time_ticks,
         quality |-> IF ~playing THEN ""
                     ELSE IF videos = <<>> THEN "Unknown"
                     ELSE IF videos[1].display_title # None THEN videos[1].display_title[1]
                     ELSE IF videos[1].title # None THEN videos[1].title[1]
                     ELSE "Unknown",
         platform |-> session.client,
         location |-> get_ip_info(session.remote_end_point),
         bandwidth |-> [bandwidth |-> -1, location |-> "Unknown"]]

JellyfinGetCurrentSessions(reply) ==
    IF IsErr(reply) THEN Ret(<<>>)
    ELSE Ret([i \in DOMAIN reply.data |-> JellyfinSessionFrom(reply.data[i])])

JellyfinGetUsers(reply) ==
    IF IsErr(reply) THEN Ret(<<>>) ELSE Ret(reply.data)

\* impl From<JellyfinLibraryCounts> for Vec<LibraryInfos>, then
\* impl From<jellyfin::LibraryInfos> for LibraryCount (to_lowercase().into())
to_lowercase(s) ==
    CASE s = "Movie" -> "movie" [] s = "Shows" -> "shows" [] s = "Music" -> "music"
      [] s = "Book" -> "book" [] OTHER -> s

JellyfinLibraryInfos(counts) ==
    <<[name |-> "Movies", media_type |-> MediaTypeFrom(to_lowercase("Movie")),
       count |-> counts.movie_count, child_count |-> None, grand_child_count |-> None],
      [name |-> "Shows", media_type |-> MediaTypeFrom(to_lowercase("Shows")),
       count |-> counts.series_count, child_count |-> None,
       grand_child_count |-> Some(counts.episode_count)],
      [name |-> "Music", media_type |-> MediaTypeFrom(to_lowercase("Music")),
       count |-> counts.album_count, child_count |-> Some(counts.artist_count),
       grand_child_count |-> Some(counts.song_count)],
      [name |-> "Books", media_type |-> MediaTypeFrom(to_lowercase("Book")),
       count |-> counts.book_count, child_count |-> None, grand_child_count |-> None]>>

get_library(reply) ==
    IF IsErr(reply) THEN Ret(<<>>) ELSE Ret(JellyfinLibraryInfos(reply.data[1]))

(******************** task executor (http_server.rs) ************************)
AdaptMissingArm(kind, reply) ==
    CASE kind = "Readarr" -> get_readarr_authors(reply)
      [] kind = "Lidarr" -> get_lidarr_artists(reply)
      [] kind = "TautulliHistory" -> get_history(reply)

\* The adapter call a task makes as its k-th awaited operation.
Adapt(kind, k, reply) ==
    CASE kind = "SonarrToday" -> get_today_shows(reply)
      [] kind = "SonarrMissing" -> get_last_week_missing_shows(reply)
      [] kind = "Radarr" -> get_radarr_movies(reply)
      [] kind \in MissingArms -> AdaptMissingArm(kind, reply)
      [] kind \in {"Overseerr", "Jellyseerr"} -> get_overseerr_requests(reply)
      [] kind = "TautulliSession" -> get_session_summary(reply)
      [] kind = "TautulliLibrary" -> get_libraries(reply)
      [] kind = "PlexSession" ->
            IF k = 1 THEN PlexGetCurrentSessions(reply) ELSE PlexGetUsers(reply)
      [] kind = "PlexLibrary" -> get_all_library_size(reply)
      [] kind = "JellyfinSession" ->
            IF k = 1 THEN JellyfinGetCurrentSessions(reply) ELSE JellyfinGetUsers(reply)
      [] kind = "JellyfinLibrary" -> get_library(reply)

ResultKind(kind) ==
    CASE kind = "Overseerr" -> "overseerr"
      [] kind = "Jellyseerr" -> "jellyseerr"
      [] kind \in {"PlexSession", "PlexLibrary"} -> "plex"
      [] kind \in {"JellyfinSession", "JellyfinLibrary"} -> "jellyfin"
      [] OTHER -> ""

\* A session result that keeps the users only when sessions were fetched.
TaskResultJoint(task, outs) ==
    [variant |-> task.kind,
     name |-> task.name,
     kind |-> ResultKind(task.kind),
     items |-> outs[1].out,
     users |-> IF task.kind \in {"PlexSession", "JellyfinSession"} /\ outs[1].out # <<>>
               THEN outs[2].out ELSE <<>>,
     total_plays |-> 0]

\* The TaskResult a match arm of process_tasks builds from what its adapter
\* calls returned.
TaskResult(task, outs) ==
    [variant |-> task.kind,
     name |-> IF task.kind \in {"TautulliSession", "TautulliLibrary", "TautulliHistory",
                                "Overseerr", "Jellyseerr"}
              THEN NoName ELSE task.name,
     kind |-> ResultKind(task.kind),
     items |-> outs[1].out,
     users |-> IF task.kind \in {"PlexSession", "JellyfinSession"} THEN outs[2].out ELSE <<>>,
     total_plays |-> IF task.kind = "TautulliHistory" THEN outs[1].total_plays ELSE 0]

(************************* encoder (prometheus.rs) **************************)
\* A Family is a map from label sets to gauge values: get_or_create(l).set(v)
\* writes the gauge of l, creating it when the label set is new.
EmptyLabel == [empty |-> TRUE]

NoSeries == [l \in {} |-> 0]

Put(series, labels, value) ==
    [l \in DOMAIN series \cup {labels} |-> IF l = labels THEN value ELSE series[l]]

One(labels, value) == Put(NoSeries, labels, value)

Merge(first, later) ==
    [l \in DOMAIN first \cup DOMAIN later |->
        IF l \in DOMAIN later THEN later[l] ELSE first[l]]

\* items.iter().for_each(|x| family.get_or_create(&L(x)).set(V(x)))
SeriesOf(items, L(_), V(_)) ==
    [l \in {L(items[i]) : i \in DOMAIN items} |->
        V(items[CHOOSE i \in DOMAIN items :
                  /\ L(items[i]) = l
                  /\ \A j \in DOMAIN items : L(items[j]) = l => j <= i])]

Count(items, P(_)) == Cardinality({i \in DOMAIN items : P(items[i])})

Fam(name, series) == [name |-> name, series |-> series]

B2F(b) == IF b THEN 1 ELSE 0

\* str::parse::<f64>() on the numerals the backends send
ParseF64(s) ==
    CASE s = "55" -> [ok |-> TRUE, v |-> 55]
      [] s = "500" -> [ok |-> TRUE, v |-> 500]
      [] s = "0" -> [ok |-> TRUE, v |-> 0]
      [] OTHER -> [ok |-> FALSE, v |-> 0]

parse_optional_count(value) ==
    IF value = None THEN 0 ELSE IF ParseF64(value[1]).ok THEN ParseF64(value[1]).v ELSE 0

SonarrLabels(r, ep) ==
    [name |-> r.name, season_number |-> ep.season_number,
     episode_number |-> ep.episode_number, title |-> ep.title, serie |-> ep.serie,
     sxe |-> ep.sxe]

FormatSonarrEpisodeResult(r) ==
    <<Fam("sonarr_today_episode",
          SeriesOf(r.items, LAMBDA ep : SonarrLabels(r, ep), LAMBDA ep : B2F(ep.has_file))),
      Fam("sonarr_today_episodes_total", One([name |-> r.name], Len(r.items)))>>

FormatSonarrMissingResult(r) ==
    <<Fam("sonarr_missing_episode",
          SeriesOf(r.items, LAMBDA ep : SonarrLabels(r, ep), LAMBDA ep : B2F(ep.has_file))),
      Fam("sonarr_missing_episodes_total", One([name |-> r.name], Len(r.items)))>>

FormatTautulliSessionResult(r) ==
    <<Fam("tautulli_session_count", One(EmptyLabel, Len(r.items))),
      Fam("tautulli_session_info",
          SeriesOf(r.items,
                   LAMBDA s : [user |-> s.user, title |-> s.title, state |-> s.state,
                               media_type |-> s.media_type, quality |-> s.quality,
                               quality_profile |-> s.quality_profile,
                               video_stream |-> s.video_stream],
                   LAMBDA s : 1)),
      Fam("tautulli_session_progress",
          SeriesOf(r.items, LAMBDA s : [user |-> s.user, title |-> s.title],
                   LAMBDA s : IF ParseF64(s.progress).ok THEN ParseF64(s.progress).v ELSE 0)),
      Fam("tautulli_session_location",
          SeriesOf(r.items,
                   LAMBDA s : [user |-> s.user, title |-> s.title, city |-> s.location.city,
                               country |-> s.location.country,
                               latitude |-> s.location.latitude,
                               longitude |-> s.location.longitude],
                   LAMBDA s : 1))>>

TautulliLibraryLabels(library) ==
    [section_name |-> library.section_name, section_type |-> library.section_type]

FormatTautulliLibraryResult(r) ==
    <<Fam("tautulli_library_item_count",
          SeriesOf(r.items, TautulliLibraryLabels,
                   LAMBDA l : IF ParseF64(l.count).ok THEN ParseF64(l.count).v ELSE 0)),
      Fam("tautulli_library_parent_count",
          SeriesOf(r.items, TautulliLibraryLabels,
                   LAMBDA l : parse_optional_count(l.parent_count))),
      Fam("tautulli_library_child_count",
          SeriesOf(r.items, TautulliLibraryLabels,
                   LAMBDA l : parse_optional_count(l.child_count))),
      Fam("tautulli_library_active",
          SeriesOf(r.items, TautulliLibraryLabels, LAMBDA l : l.is_active))>>

\* The account name of the entry, whatever its friendly name.
HistoryUserName(entry) == entry.user

HistoryUser(entry) == IF entry.friendly_name = "" THEN entry.user ELSE entry.friendly_name

FormatTautulliHistoryResult(r) ==
    LET recent == SelectSeq(r.items, LAMBDA e : e.date >= Now - 86400)
    IN  <<Fam("tautulli_history_total_plays", One(EmptyLabel, r.total_plays)),
          Fam("tautulli_history_user_watches_24h",
              [l \in {[user |-> HistoryUser(recent[i])] : i \in DOMAIN recent} |->
                  Count(recent, LAMBDA e : HistoryUser(e) = l.user)]),
          Fam("tautulli_history_plays_24h", One(EmptyLabel, Len(recent)))>>

\* A count of the movies that have no file, available or not.
RadarrMissingNoFile(movies) == Count(movies, LAMBDA m : ~m.has_file)

\* miss_total: one more for every movie with missing_available
RadarrMissingTotal(movies) == Count(movies, LAMBDA m : m.missing_available)

FormatRadarrMovieResult(r) ==
    LET labels(m) == [name |-> r.name, title |-> m.title]
        agg_labels == [name |-> r.name]
    IN  <<Fam("radarr_movie_has_file", SeriesOf(r.items, labels, LAMBDA m : B2F(m.has_file))),
          Fam("radarr_movie_monitored", SeriesOf(r.items, labels, LAMBDA m : B2F(m.monitored))),
          Fam("radarr_movie_available",
              SeriesOf(r.items, labels, LAMBDA m : B2F(m.is_available))),
          Fam("radarr_movies_total", One(agg_labels, Len(r.items))),
          Fam("radarr_movies_monitored_total",
              One(agg_labels, Count(r.items, LAMBDA m : m.monitored))),
          Fam("radarr_movies_missing_total",
              One(agg_labels, RadarrMissingTotal(r.items)))>>

FormatLidarrArtistResult(r) ==
    LET agg_labels == [name |-> r.name]
    IN  <<Fam("lidarr_artist_monitored",
              SeriesOf(r.items, LAMBDA a : [name |-> r.name, artist |-> a.name],
                       LAMBDA a : B2F(a.monitored))),
          Fam("lidarr_artists_total", One(agg_labels, Len(r.items))),
          Fam("lidarr_monitored_artists_total",
              One(agg_labels, Count(r.items, LAMBDA a : a.monitored))),
          Fam("lidarr_tracks_total",
              One(agg_labels,
                  SumSeq([i \in DOMAIN r.items |-> r.items[i].track_file_count])))>>

FormatReadarrAuthorResult(r) ==
    LET agg_labels == [name |-> r.name]
    IN  <<Fam("readarr_author_monitored",
              SeriesOf(r.items, LAMBDA a : [name |-> r.name, author |-> a.name],
                       LAMBDA a : B2F(a.monitored))),
          Fam("readarr_authors_total", One(agg_labels, Len(r.items))),
          Fam("readarr_monitored_authors_total",
              One(agg_labels, Count(r.items, LAMBDA a : a.monitored))),
          Fam("readarr_books_total",
              One(agg_labels,
                  SumSeq([i \in DOMAIN r.items |-> r.items[i].book_file_count])))>>

FormatOverseerrRequestResult(r) ==
    LET labels(q) == [media_type |-> q.media_type, requested_by |-> q.requested_by,
                      media_title |-> q.media_title]
        agg_labels == [name |-> r.kind]
    IN  <<Fam(r.kind \o "_request_status",
              SeriesOf(r.items, labels, LAMBDA q : RequestStatusAsF64(q.status))),
          Fam(r.kind \o "_media_status",
              SeriesOf(r.items, labels, LAMBDA q : MediaStatusAsF64(q.media_status))),
          Fam(r.kind \o "_requests_total", One(agg_labels, Len(r.items))),
          Fam(r.kind \o "_requests_pending_total",
              One(agg_labels, Count(r.items, LAMBDA q : RequestStatusAsF64(q.status) = 1))),
          Fam(r.kind \o "_requests_approved_total",
              One(agg_labels, Count(r.items, LAMBDA q : RequestStatusAsF64(q.status) = 2))),
          Fam(r.kind \o "_requests_declined_total",
              One(agg_labels, Count(r.items, LAMBDA q : RequestStatusAsF64(q.status) = 3)))>>

SessionPrefix(kind) ==
    CASE kind = "plex" -> "plex" [] kind = "jellyfin" -> "jellyfin" [] OTHER -> "unknown"

\* The known users with no retain() applied.
all_users(r) == r.users

\* inactive_users: the users left after retain(|u| u.name != session.user)
\* has run for every session
inactive_users(r) ==
    SelectSeq(r.users, LAMBDA u : \A i \in DOMAIN r.items : r.items[i].user # u.name)

\* wan_bandwidth / lan_bandwidth once the loop has gone over every session
BandwidthTotal(sessions, location) ==
    SumSeq([i \in DOMAIN sessions |->
              IF sessions[i].bandwidth.location = location
              THEN sessions[i].bandwidth.bandwidth ELSE 0])

\* The two series written from the accumulators as they are before the loop.
SessionBandwidthBeforeLoop(r) ==
    Put(One([name |-> r.name, location |-> "LAN"], 0),
        [name |-> r.name, location |-> "WAN"], 0)

SessionBandwidth(r) ==
    Put(One([name |-> r.name, location |-> "LAN"], BandwidthTotal(r.items, "Lan")),
        [name |-> r.name, location |-> "WAN"], BandwidthTotal(r.items, "Wan"))

\* A count of the users in session instead of the sessions.
SessionCountUsers(r) == Cardinality({r.items[i].user : i \in DOMAIN r.items})

\* session_count.set(self.sessions.len())
SessionCount(r) == Len(r.items)

SessionInfoLabels(r, s) ==
    [name |-> r.name, user |-> s.user, title |-> s.title, state |-> s.state,
     platform |-> s.platform, decision |-> s.stream_decision,
     media_type |-> s.media_type, quality |-> s.quality]

\* user_active written for the users in session only.
UserActiveSessions(r) ==
    SeriesOf(r.items, LAMBDA s : [name |-> r.name, user |-> s.user], LAMBDA s : 1)

\* user_active: 1 for the user of every session in the loop, then 0 for every
\* user left in inactive_users
UserActive(r) ==
    Merge(SeriesOf(r.items, LAMBDA s : [name |-> r.name, user |-> s.user], LAMBDA s : 1),
          SeriesOf(inactive_users(r), LAMBDA u : [name |-> r.name, user |-> u.name],
                   LAMBDA u : 0))

FormatSessionResult(r) ==
    LET prefix == SessionPrefix(r.kind)
    IN  <<Fam(prefix \o "_session_count", One([name |-> r.name], SessionCount(r))),
          Fam(prefix \o "_session_info",
              SeriesOf(r.items, LAMBDA s : SessionInfoLabels(r, s), LAMBDA s : 1)),
          Fam(prefix \o "_session_progress",
              SeriesOf(r.items, LAMBDA s : [name |-> r.name, user |-> s.user,
                                            title |-> s.title],
                       LAMBDA s : s.progress)),
          Fam(prefix \o "_user_active", UserActive(r)),
          Fam(prefix \o "_session_location",
              SeriesOf(r.items,
                       LAMBDA s : [name |-> r.name, user |-> s.user, title |-> s.title,
                                   city |-> s.location.city, country |-> s.location.country,
                                   latitude |-> s.location.latitude,
                                   longitude |-> s.location.longitude],
                       LAMBDA s : 1))>>
        \o (IF r.kind = "plex" \/ r.kind # "jellyfin"
            THEN <<Fam(prefix \o "_session_bandwidth", SessionBandwidth(r))>>
            ELSE <<>>)

UnwrapOr0(v) == IF v = None THEN 0 ELSE v[1]

FormatLibraryResult(r) ==
    LET labels(lib) == [name |-> r.name, library_name |-> lib.name,
                        library_type |-> lib.media_type]
        OfType(t) == SelectSeq(r.items, LAMBDA lib : lib.media_type = t)
        movie_count == SumSeq([i \in DOMAIN OfType("Movie") |-> OfType("Movie")[i].count])
        show_count == SumSeq([i \in DOMAIN OfType("Show") |-> OfType("Show")[i].count])
        season_count ==
            SumSeq([i \in DOMAIN OfType("Show") |-> UnwrapOr0(OfType("Show")[i].child_count)])
        episode_count ==
            SumSeq([i \in DOMAIN OfType("Show") |->
                      UnwrapOr0(OfType("Show")[i].grand_child_count)])
        library_count == SeriesOf(r.items, labels, LAMBDA lib : lib.count)
        library_child_count ==
            SeriesOf(r.items, labels, LAMBDA lib : UnwrapOr0(lib.child_count))
        library_grandchild_count ==
            SeriesOf(r.items, labels, LAMBDA lib : UnwrapOr0(lib.grand_child_count))
    IN  CASE r.kind = "plex" ->
               <<Fam("plex_movie_count", One(EmptyLabel, movie_count)),
                 Fam("plex_show_count", One(EmptyLabel, show_count)),
                 Fam("plex_season_count", One(EmptyLabel, season_count)),
                 Fam("plex_episode_count", One(EmptyLabel, episode_count)),
                 Fam("plex_library_count", library_count),
                 Fam("plex_library_child_count", library_child_count),
                 Fam("plex_library_grandchild_count", library_grandchild_count)>>
          [] r.kind = "jellyfin" ->
               <<Fam("jellyfin_movie_count", One(EmptyLabel, movie_count)),
                 Fam("jellyfin_show_count", One(EmptyLabel, show_count)),
                 Fam("jellyfin_episode_count", One(EmptyLabel, episode_count)),
                 Fam("jellyfin_library_count", library_count),
                 Fam("jellyfin_library_child_count", library_child_count),
                 Fam("jellyfin_library_grandchild_count", library_grandchild_count)>>
          [] OTHER -> <<>>

\* impl FormatAsPrometheus for TaskResult: the families a result registers,
\* in registration order
format_as_prometheus(r) ==
    CASE r.variant = "SonarrToday" -> FormatSonarrEpisodeResult(r)
      [] r.variant = "SonarrMissing" -> FormatSonarrMissingResult(r)
      [] r.variant = "TautulliSession" -> FormatTautulliSessionResult(r)
      [] r.variant = "TautulliLibrary" -> FormatTautulliLibraryResult(r)
      [] r.variant = "TautulliHistory" -> FormatTautulliHistoryResult(r)
      [] r.variant = "Radarr" -> FormatRadarrMovieResult(r)
      [] r.variant = "Readarr" -> FormatReadarrAuthorResult(r)
      [] r.variant = "Lidarr" -> FormatLidarrArtistResult(r)
      [] r.variant \in {"Overseerr", "Jellyseerr"} -> FormatOverseerrRequestResult(r)
      [] r.variant \in {"PlexSession", "JellyfinSession"} -> FormatSessionResult(r)
      [] r.variant \in {"PlexLibrary", "JellyfinLibrary"} -> FormatLibraryResult(r)
      [] OTHER -> <<>>

\* Registry::with_prefix("homers").register(name, help, metric): the
\* descriptor is pushed, whatever the registry already holds.
register(registry, family) ==
    Append(registry, Fam("homers_" \o family.name, family.series))

RECURSIVE RegisterAll(_, _)
RegisterAll(registry, families) ==
    IF families = <<>> THEN registry
    ELSE RegisterAll(register(registry, Head(families)), Tail(families))

\* A registry that still holds the descriptors of the last response.
registry_kept == response.body.families

\* Registry::with_prefix("homers"): a registry without descriptors
with_prefix == <<>>

\* format_metrics: one registry per scrape, every result registers into it in
\* order, then encode() writes every descriptor and the end marker.
format_metrics(task_results) ==
    [families |-> RegisterAll(with_prefix, Flatten([i \in DOMAIN task_results |->
                                               format_as_prometheus(task_results[i])])),
     eof |-> TRUE]

get_openmetrics_content_type == "application/openmetrics-text; version=1.0.0; charset=utf-8"

get_text_plain_content_type == "text/plain; version=0.0.4; charset=utf-8"

(*************************** the scrape pipeline ****************************)
\* A header value: to_str() gives its text when every byte is visible ASCII.
\* The text is a sequence of tokens, cut so that the letters "openmetrics"
\* stand in the text exactly where a token "openmetrics" stands.
HeaderValue(readable, text) == [readable |-> readable, text |-> text]

OpenmetricsText == <<"application", "/", "openmetrics", "-", "text">>

\* What the scraper can send in the accept header: none, or one of these.
AcceptHeaders ==
    {None,
     Some(HeaderValue(TRUE, <<"text", "/", "plain">>)),
     Some(HeaderValue(TRUE, <<"*", "/", "*">>)),
     Some(HeaderValue(TRUE, OpenmetricsText)),
     Some(HeaderValue(TRUE, OpenmetricsText \o <<";", "version=1.0.0", ";", "q=0.5", ",",
                                                 "text", "/", "plain", ";", "q=0.3">>)),
     Some(HeaderValue(TRUE, <<"text", "/", "plain", ",">> \o OpenmetricsText)),
     Some(HeaderValue(TRUE, <<"application", "/", "openmetrics", "-", "json">>)),
     Some(HeaderValue(TRUE, <<"text", "/", "plain", ";", "profile=", "openmetrics">>)),
     Some(HeaderValue(FALSE, OpenmetricsText \o <<"\\xff">>))}

\* HeaderValue::to_str
to_str(value) == IF value.readable THEN Some(value.text) ELSE None

\* accept_value.contains("openmetrics")
ContainsOpenmetrics(text) == \E i \in DOMAIN text : text[i] = "openmetrics"

\* metrics(): Prometheus unless the accept header is there, is text and
\* contains "openmetrics"
NegotiatedFormat(accept) ==
    IF accept # None /\ to_str(accept[1]) # None /\ ContainsOpenmetrics(to_str(accept[1])[1])
    THEN "OpenMetrics" ELSE "Prometheus"

ExpectedShape(opname) ==
    CASE opname = "get_activity" -> "Activity"
      [] opname = "get_libraries" -> "Libraries"
      [] opname = "plex_sessions" -> "ActivityContainer"
      [] opname = "plex_statistics" -> "StatisticsContainer"
      [] opname = "plex_sections" -> "LibraryContainer"
      [] OTHER -> NoShape

\* The adapter call did not get what it asked for: the transport failed, the
\* body did not decode, the payload has another shape than the one asked for,
\* or a follow-up request of the call failed.
Failed(opname, reply) ==
    \/ IsErr(reply)
    \/ ExpectedShape(opname) # NoShape /\ reply.shape # ExpectedShape(opname)
    \/ opname = "plex_sections" /\ \E i \in DOMAIN reply.data : IsErr(reply.data[i].items)

Idx == DOMAIN tasks

\* no response has been written for the request
NoBody == [families |-> <<>>, eof |-> FALSE]

NoResponse == [status |-> 0, content_type |-> "", body |-> NoBody, text |-> ""]

\* The process has read its configuration; no task is built yet.
Init ==
    /\ API_KEY = None
    /\ INIT = FALSE
    /\ handles = <<>>
    /\ sent = {}
    /\ clock = 200000
    /\ requests = <<>>
    /\ futures_requests = <<>>
    /\ overseerr_requests = <<>>
    /\ directory = <<>>
    /\ sent_keys = <<>>
    /\ item_replies = <<>>
    /\ library_infos = <<>>
    /\ library_size = <<>>
    /\ config \in Configs
    /\ tasks = <<>>
    /\ format = "Prometheus"
    /\ phase = "startup"
    /\ pc = <<>>
    /\ op = <<>>
    /\ calls = <<>>
    /\ got = <<>>
    /\ part = <<>>
    /\ results = <<>>
    /\ response = NoResponse

\* configure_axum: get_tasks takes the configuration and builds the registry
\* that goes into the shared state; then the server listens.
configure_axum ==
    /\ phase = "startup"
    /\ tasks' = get_tasks(config)
    /\ config' = DefaultConfig
    /\ phase' = "idle"
    /\ pc' = [i \in DOMAIN tasks' |-> "start"]
    /\ op' = [i \in DOMAIN tasks' |-> 1]
    /\ calls' = [i \in DOMAIN tasks' |-> [k \in DOMAIN Ops(tasks'[i].kind) |-> 0]]
    /\ got' = [i \in DOMAIN tasks' |-> <<>>]
    /\ part' = [i \in DOMAIN tasks' |-> <<>>]
    /\ UNCHANGED <<locals, API_KEY, INIT, handles, sent, clock, format, results, response>>

\* GET /metrics arrives: metrics() picks the format and serve_metrics hands
\* app_state.tasks.clone() to process_tasks, which builds one future per task.
StartScrape(accept) ==
    /\ phase \in {"idle", "responded", "aborted"}
    /\ format' = NegotiatedFormat(accept)
    /\ phase' = "fetching"
    /\ pc' = [i \in Idx |-> "start"]
    /\ op' = [i \in Idx |-> 1]
    /\ calls' = [i \in Idx |-> [k \in DOMAIN Ops(tasks[i].kind) |-> 0]]
    /\ got' = [i \in Idx |-> <<>>]
    /\ part' = [i \in Idx |-> <<>>]
    /\ results' = <<>>
    /\ response' = NoResponse
    /\ UNCHANGED <<locals, API_KEY, INIT, handles, sent, clock, config, tasks>>

\* A task's future is polled and runs up to the await of its next adapter
\* call: the request goes out.
CanStartInTurn(i) == pc[i] = "start" /\ \A j \in Idx : j < i => pc[j] = "done"

CanStart(i) == pc[i] = "start"

Issue(i) ==
    /\ i \in Idx
    /\ phase = "fetching"
    /\ CanStart(i)
    /\ calls[i][op[i]] < MaxCalls
    /\ calls' = [calls EXCEPT ![i][op[i]] = @ + 1]
    /\ pc' = [pc EXCEPT ![i] = "wait"]
    /\ UNCHANGED <<locals, API_KEY, INIT, handles, sent, clock, config, tasks, format, phase, op, got, part, results, response>>

\* A task that sends a failed request again instead of going on.
RetryOp(kind, k, reply) == IF IsErr(reply) THEN k ELSE k + 1

\* The operation a task goes on with once the reply to its k-th call is in.
NextOp(kind, k, reply) == k + 1

\* The backend answers; the adapter turns the reply into its return value, or
\* unwinds, which takes the whole handler future with it.
Reply(i, reply) ==
    /\ i \in Idx
    /\ phase = "fetching"
    /\ pc[i] = "wait"
    /\ reply \in AdapterReplies(Ops(tasks[i].kind)[op[i]])
    /\ LET kind == tasks[i].kind
           k == op[i]
           o == Adapt(kind, k, reply)
           n == NextOp(kind, k, reply)
           outs == IF n > k THEN Append(part[i], o) ELSE part[i]
       IN  /\ got' = [got EXCEPT ![i] = Append(@, Failed(Ops(kind)[k], reply))]
           /\ IF o.panic
              THEN /\ phase' = "aborted"
                   /\ pc' = [pc EXCEPT ![i] = "panicked"]
                   /\ UNCHANGED <<op, part>>
              ELSE /\ phase' = phase
                   /\ op' = [op EXCEPT ![i] = n]
                   /\ part' = [part EXCEPT ![i] = outs]
                   /\ pc' = [pc EXCEPT ![i] = IF n > Len(Ops(kind)) THEN "done" ELSE "start"]
    /\ UNCHANGED <<locals, API_KEY, INIT, handles, sent, clock, config, tasks, format, calls, results, response>>

\* The backend accepts the connection and never answers: no timeout is set on
\* the client and none around the await, so the task stays suspended.
Stall(i) ==
    /\ i \in Idx
    /\ phase = "fetching"
    /\ pc[i] = "wait"
    /\ pc' = [pc EXCEPT ![i] = "stalled"]
    /\ UNCHANGED <<locals, API_KEY, INIT, handles, sent, clock, config, tasks, format, phase, op, calls, got, part, results, response>>

\* try_join_all resolves once every future has its output, in task order.
Collect ==
    /\ phase = "fetching"
    /\ \A i \in Idx : pc[i] = "done"
    /\ results' = [i \in Idx |-> TaskResult(tasks[i], part[i])]
    /\ phase' = "collected"
    /\ UNCHANGED <<locals, API_KEY, INIT, handles, sent, clock, config, tasks, format, pc, op, calls, got, part, response>>

\* serve_metrics with the two error messages the other way round.
serve_metrics_swapped(fmt, at, task_results) ==
    CASE at = "join_error" ->
            [status |-> 500, content_type |-> get_text_plain_content_type, body |-> NoBody,
             text |-> "Error formatting metrics. Check the logs."]
      [] at = "encode_error" ->
            [status |-> 500, content_type |-> get_text_plain_content_type, body |-> NoBody,
             text |-> "Error while fetching provider data. Check the logs."]
      [] OTHER ->
            [status |-> 200,
             content_type |-> IF fmt = "OpenMetrics" THEN get_openmetrics_content_type
                              ELSE get_text_plain_content_type,
             body |-> format_metrics(task_results), text |-> ""]

\* serve_metrics: the response for the place the handler is at.  "collected":
\* process_tasks returned Ok and format_metrics Ok; "encode_error":
\* format_metrics returned Err; "join_error": process_tasks returned Err.
\* A 200 carries the encoded document as body, a 500 a text.
serve_metrics(fmt, at, task_results) ==
    CASE at = "join_error" ->
            [status |-> 500, content_type |-> get_text_plain_content_type, body |-> NoBody,
             text |-> "Error while fetching provider data. Check the logs."]
      [] at = "encode_error" ->
            [status |-> 500, content_type |-> get_text_plain_content_type, body |-> NoBody,
             text |-> "Error formatting metrics. Check the logs."]
      [] OTHER ->
            [status |-> 200,
             content_type |-> IF fmt = "OpenMetrics" THEN get_openmetrics_content_type
                              ELSE get_text_plain_content_type,
             body |-> format_metrics(task_results), text |-> ""]

\* serve_metrics writes the response.  In the pipeline the handler is always
\* at "collected": the task futures all return Ok, and encode() into a String
\* cannot fail.
Respond ==
    /\ phase \in {"collected", "encode_error", "join_error"}
    /\ response' = serve_metrics(format, phase, results)
    /\ phase' = "responded"
    /\ UNCHANGED <<locals, API_KEY, INIT, handles, sent, clock, config, tasks, format, pc, op, calls, got, part, results>>

Next ==
    \/ configure_axum
    \/ \E accept \in AcceptHeaders : StartScrape(accept)
    \/ \E i \in 1..MaxTasks : Issue(i)
    \/ \E i \in 1..MaxTasks : \E reply \in AllReplies : Reply(i, reply)
    \/ \E i \in 1..MaxTasks : Stall(i)
    \/ Collect
    \/ Respond

Spec == Init /\ [][Next]_vars

(************************ the encoder on its own ****************************)
\* format_metrics is a function of the Vec<TaskResult> alone.  EncSpec hands
\* it result lists the executor can return, built by the adapters from
\* upstream payloads: lists of results of distinct (variant, instance), and
\* single session results over every short list of sessions and known users.
EncNames == {"a", "b"}

EncTasks ==
    {Task(kind, n, Http) : kind \in {"SonarrToday", "SonarrMissing", "Radarr", "Readarr", "Lidarr",
                               "PlexSession", "PlexLibrary", "JellyfinSession",
                               "JellyfinLibrary"},
                     n \in EncNames}
    \cup {Task(kind, NoName, Http) : kind \in {"TautulliSession", "TautulliLibrary",
                                         "TautulliHistory", "Overseerr", "Jellyseerr"}}

\* a reply the adapter call turns into a non-empty payload
SampleReply(kind, k) ==
    CHOOSE reply \in Replies(Ops(kind)[k]) :
        /\ ~Failed(Ops(kind)[k], reply)
        /\ ~Adapt(kind, k, reply).panic
        /\ Adapt(kind, k, reply).out # <<>>

\* what the adapter calls of a task of each kind return for the sample replies
SampleOuts ==
    [kind \in {t.kind : t \in EncTasks} |->
        [k \in DOMAIN Ops(kind) |-> Adapt(kind, k, SampleReply(kind, k))]]

SampleResult(task) == TaskResult(task, SampleOuts[task.kind])

EncMetas ==
    {PlexMeta(u, "Dune", Media(<<video_stream>>), location, bandwidth) :
        u \in {"alice", "bob"}, location \in {"lan", "wan", "cellular"}, bandwidth \in {0, 3}}

EncKnownUsers(names) == DistinctSeqsUpTo({[name |-> n] : n \in names}, MaxUsers)

EncPlexSessionResults ==
    {TaskResult(Task("PlexSession", "a", Http),
                <<PlexGetCurrentSessions(Body("ActivityContainer", metas)),
                  PlexGetUsers(Body("StatisticsContainer", users))>>) :
        metas \in SeqsUpTo(EncMetas, MaxSessions),
        users \in EncKnownUsers({"alice", "bob", "carol"})}

EncJellyfinSessionResults ==
    {TaskResult(Task("JellyfinSession", "a", Http),
                <<JellyfinGetCurrentSessions(Body("sessions", sessions)),
                  JellyfinGetUsers(Body("users", users))>>) :
        sessions \in SeqsUpTo({jsession1, [jsession1 EXCEPT !.user_name = "dave"]},
                              MaxSessions),
        users \in EncKnownUsers({"carol", "dave"})}

EncTautulliSessionResults ==
    {TaskResult(Task("TautulliSession", NoName, Http),
                <<get_session_summary(Body("Activity", sessions))>>) :
        sessions \in SeqsUpTo({tsession1, [tsession1 EXCEPT !.user = "bob"]}, MaxSessions)}

\* The integer codes an upstream request can carry: those of the enums and
\* some outside them.
StatusCodes == {-1, 0, 1, 2, 3, 4, 5, 6}

EncRequests == {[req1 EXCEPT !.status = s, !.media_status = m] : s, m \in StatusCodes}

EncRequestLists ==
    {<<>>} \cup {<<q>> : q \in EncRequests} \cup {<<q, req2>> : q \in EncRequests}
    \cup {<<q, req2, req1>> : q \in EncRequests}

EncOverseerrResults ==
    {TaskResult(Task(kind, NoName, Http), <<get_overseerr_requests(Body("requests", reqs))>>) :
        kind \in {"Overseerr", "Jellyseerr"}, reqs \in EncRequestLists}

EncMovies ==
    {[title |-> t, has_file |-> f, monitored |-> m, is_available |-> a] :
        t \in {"Matrix", "Dune"}, f \in BOOLEAN, m \in BOOLEAN, a \in BOOLEAN}

EncMovieLists ==
    {<<>>} \cup {<<m>> : m \in EncMovies} \cup {<<m, n>> : m \in EncMovies, n \in EncMovies}

EncRadarrResults ==
    {TaskResult(Task("Radarr", "a", Http), <<get_radarr_movies(Body("movies", movies))>>) :
        movies \in EncMovieLists}

\* History entries of three accounts, played an hour ago, exactly 86400
\* seconds ago and one second earlier than that.
EncEntries ==
    {[date |-> 200000 - age, user |-> u[1], friendly_name |-> u[2], media_type |-> "movie",
      watched_status |-> 1] :
        age \in {3600, 86400, 86401},
        u \in {<<"alice", "">>, <<"al", "alice">>, <<"bob", "Bobby">>}}

\* TaskResult::TautulliHistory(TautulliHistoryResult { total_plays, entries })
EncHistoryResults ==
    {[variant |-> "TautulliHistory", name |-> NoName, kind |-> "", items |-> entries,
      users |-> <<>>, total_plays |-> 7] :
        entries \in SeqsUpTo(EncEntries, MaxEntries)}

EncResults ==
    {[i \in DOMAIN ts |-> SampleResult(ts[i])] : ts \in DistinctSeqsUpTo(EncTasks, MaxResults)}
    \cup {<<r>> : r \in EncPlexSessionResults \cup EncJellyfinSessionResults
                        \cup EncTautulliSessionResults \cup EncOverseerrResults
                        \cup EncRadarrResults \cup EncHistoryResults}

EncInit ==
    /\ API_KEY = None
    /\ INIT = FALSE
    /\ handles = <<>>
    /\ sent = {}
    /\ clock = 200000
    /\ requests = <<>>
    /\ futures_requests = <<>>
    /\ overseerr_requests = <<>>
    /\ directory = <<>>
    /\ sent_keys = <<>>
    /\ item_replies = <<>>
    /\ library_infos = <<>>
    /\ library_size = <<>>
    /\ config = DefaultConfig
    /\ tasks = <<>>
    /\ format \in {"Prometheus", "OpenMetrics"}
    /\ phase = "collected"
    /\ pc = <<>>
    /\ op = <<>>
    /\ calls = <<>>
    /\ got = <<>>
    /\ part = <<>>
    /\ results \in EncResults
    /\ response = NoResponse

EncNext == Respond

EncSpec == EncInit /\ [][EncNext]_vars

(************************* the startup on its own ***************************)
\* get_tasks is a function of the configuration alone.  RegSpec hands it
\* configurations over every address string and stops when the registry is
\* built.
RegInit ==
    /\ API_KEY = None
    /\ INIT = FALSE
    /\ handles = <<>>
    /\ sent = {}
    /\ clock = 200000
    /\ requests = <<>>
    /\ futures_requests = <<>>
    /\ overseerr_requests = <<>>
    /\ directory = <<>>
    /\ sent_keys = <<>>
    /\ item_replies = <<>>
    /\ library_infos = <<>>
    /\ library_size = <<>>
    /\ config \in RegConfigs
    /\ tasks = <<>>
    /\ format = "Prometheus"
    /\ phase = "startup"
    /\ pc = <<>>
    /\ op = <<>>
    /\ calls = <<>>
    /\ got = <<>>
    /\ part = <<>>
    /\ results = <<>>
    /\ response = NoResponse

RegNext == configure_axum

RegSpec == RegInit /\ [][RegNext]_vars

(************************ serve_metrics on its own **************************)
\* serve_metrics is a function of the format and of what process_tasks and
\* format_metrics returned.  SrvSpec hands it each of the three outcomes its
\* match distinguishes.
SrvResults ==
    {<<>>} \cup {<<SampleResult(t)>> : t \in EncTasks}

SrvInit ==
    /\ API_KEY = None
    /\ INIT = FALSE
    /\ handles = <<>>
    /\ sent = {}
    /\ clock = 200000
    /\ requests = <<>>
    /\ futures_requests = <<>>
    /\ overseerr_requests = <<>>
    /\ directory = <<>>
    /\ sent_keys = <<>>
    /\ item_replies = <<>>
    /\ library_infos = <<>>
    /\ library_size = <<>>
    /\ config = DefaultConfig
    /\ tasks = <<>>
    /\ format \in {"Prometheus", "OpenMetrics"}
    /\ phase \in {"collected", "encode_error", "join_error"}
    /\ pc = <<>>
    /\ op = <<>>
    /\ calls = <<>>
    /\ got = <<>>
    /\ part = <<>>
    /\ results \in SrvResults
    /\ phase = "join_error" => results = <<>>
    /\ response = NoResponse

SrvNext == Respond

SrvSpec == SrvInit /\ [][SrvNext]_vars

(************************ successive scrapes ********************************)
\* What one scrape leaves behind for the next.  ScrSpec runs scrape after
\* scrape on the registry of one provider section, while time passes; a
\* scrape is taken from the request up to the return of process_tasks in one
\* step, and response keeps the last response sent until the next one is
\* written.
ScrConfigs ==
    {c \in Configs : /\ Cardinality({f \in DOMAIN c : c[f] # None}) = 1
                     /\ NumTasks(c) >= 1}

\* The result of a task whose adapter calls all failed.
EmptyResult(task) ==
    TaskResult(task, [k \in DOMAIN Ops(task.kind) |-> Adapt(task.kind, k, TransportError)])

\* What process_tasks can return for the registry ts: for every task the
\* result of replies with data or of failed calls.
ScrRegistries == {get_tasks(c) : c \in ScrConfigs}

ScrOutcomesOf ==
    [ts \in ScrRegistries |->
        {[i \in DOMAIN ts |-> IF i \in ok THEN SampleResult(ts[i]) ELSE EmptyResult(ts[i])] :
            ok \in SUBSET DOMAIN ts}]

ScrOutcomes(ts) == ScrOutcomesOf[ts]

ScrAllOutcomes == UNION {ScrOutcomes(ts) : ts \in ScrRegistries}

ScrInit ==
    /\ API_KEY = None
    /\ INIT = FALSE
    /\ handles = <<>>
    /\ sent = {}
    /\ clock = 200000
    /\ requests = <<>>
    /\ futures_requests = <<>>
    /\ overseerr_requests = <<>>
    /\ directory = <<>>
    /\ sent_keys = <<>>
    /\ item_replies = <<>>
    /\ library_infos = <<>>
    /\ library_size = <<>>
    /\ config = DefaultConfig
    /\ tasks \in ScrRegistries
    /\ format = "Prometheus"
    /\ phase = "idle"
    /\ pc = <<>>
    /\ op = <<>>
    /\ calls = <<>>
    /\ got = <<>>
    /\ part = <<>>
    /\ results = <<>>
    /\ response = NoResponse

\* GET /metrics up to the return of process_tasks(app_state.tasks.clone())
Scrape(accept, task_results) ==
    /\ phase \in {"idle", "responded"}
    /\ task_results \in ScrOutcomes(tasks)
    /\ format' = NegotiatedFormat(accept)
    /\ results' = task_results
    /\ phase' = "collected"
    /\ UNCHANGED <<locals, API_KEY, INIT, handles, sent, clock, config, tasks, pc, op, calls, got, part, response>>

\* Time passes on the host.
Tick ==
    /\ \E t \in Times : t > clock /\ clock' = t
    /\ UNCHANGED <<locals, API_KEY, INIT, handles, sent, config, tasks, format, phase, pc, op, calls, got, part,
                   results, response>>

ScrNext ==
    \/ Tick
    \/ \E accept \in AcceptHeaders : \E task_results \in ScrAllOutcomes : Scrape(accept, task_results)
    \/ Respond

ScrSpec == ScrInit /\ [][ScrNext]_vars

(************************ the adapters on their own *************************)
\* AdpSpec runs the pipeline on the registry of one provider section, with
\* every reply of AdapterReplies and backends that always answer.
AdpInit ==
    /\ API_KEY = None
    /\ INIT = FALSE
    /\ handles = <<>>
    /\ sent = {}
    /\ clock = 200000
    /\ requests = <<>>
    /\ futures_requests = <<>>
    /\ overseerr_requests = <<>>
    /\ directory = <<>>
    /\ sent_keys = <<>>
    /\ item_replies = <<>>
    /\ library_infos = <<>>
    /\ library_size = <<>>
    /\ config \in ScrConfigs
    /\ tasks = <<>>
    /\ format = "Prometheus"
    /\ phase = "startup"
    /\ pc = <<>>
    /\ op = <<>>
    /\ calls = <<>>
    /\ got = <<>>
    /\ part = <<>>
    /\ results = <<>>
    /\ response = NoResponse

AdpNext ==
    \/ configure_axum
    \/ \E accept \in AcceptHeaders : StartScrape(accept)
    \/ \E i \in 1..MaxTasks : Issue(i)
    \/ \E i \in 1..MaxTasks : \E reply \in AllAdapterReplies : Reply(i, reply)
    \/ Collect
    \/ Respond

AdpSpec == AdpInit /\ [][AdpNext]_vars

(********************* the Sonarr constructors ******************************)
\* Two modules of the repository define a Sonarr handle with a constructor
\* new(address, api_key): providers::sonarr and sonarr.  Both give the
\* client a default header X-Api-Key that every request of the handle
\* carries.  KeySpec constructs handles through either, in any order, and
\* lets them send requests.
MaxHandles == 3

ApiKeys == {"key1", "key2"}

Handle(module, address, api_key, x_api_key) ==
    [module |-> module, address |-> address, api_key |-> api_key, x_api_key |-> x_api_key]

\* initialize_api_key: INIT.call_once stores the key the first time only
initialize_api_key(api_key) == IF INIT THEN API_KEY ELSE Some(api_key)

\* get_api_key, once INIT has run: the key API_KEY holds
get_api_key(static) == static[1]

\* providers::sonarr::Sonarr::new: the header is made of the argument
providers_sonarr_new(address, api_key) ==
    /\ Len(handles) < MaxHandles
    /\ handles' = Append(handles, Handle("providers::sonarr", address, api_key, api_key))
    /\ UNCHANGED <<locals, API_KEY, INIT, sent, clock, config, tasks, format, phase, pc, op, calls, got,
                   part, results, response>>

\* sonarr::Sonarr::new: initialize_api_key(api_key), then the header is made
\* of get_api_key()
sonarr_new(address, api_key) ==
    /\ Len(handles) < MaxHandles
    /\ API_KEY' = initialize_api_key(api_key)
    /\ INIT' = TRUE
    /\ handles' = Append(handles, Handle("sonarr", address, api_key, get_api_key(API_KEY')))
    /\ UNCHANGED <<locals, sent, clock, config, tasks, format, phase, pc, op, calls, got, part, results,
                   response>>

\* self.client.get(url).send(): the request carries the default headers of
\* the client of the handle
send(i) ==
    /\ i \in DOMAIN handles
    /\ sent' = sent \cup {[handle |-> i, x_api_key |-> handles[i].x_api_key]}
    /\ UNCHANGED <<locals, API_KEY, INIT, handles, clock, config, tasks, format, phase, pc, op, calls,
                   got, part, results, response>>

KeyInit ==
    /\ API_KEY = None
    /\ INIT = FALSE
    /\ handles = <<>>
    /\ sent = {}
    /\ clock = 200000
    /\ requests = <<>>
    /\ futures_requests = <<>>
    /\ overseerr_requests = <<>>
    /\ directory = <<>>
    /\ sent_keys = <<>>
    /\ item_replies = <<>>
    /\ library_infos = <<>>
    /\ library_size = <<>>
    /\ config = DefaultConfig
    /\ tasks = <<>>
    /\ format = "Prometheus"
    /\ phase = "startup"
    /\ pc = <<>>
    /\ op = <<>>
    /\ calls = <<>>
    /\ got = <<>>
    /\ part = <<>>
    /\ results = <<>>
    /\ response = NoResponse

KeyNext ==
    \/ \E api_key \in ApiKeys : providers_sonarr_new(Http, api_key)
    \/ \E api_key \in ApiKeys : sonarr_new(Http, api_key)
    \/ \E i \in 1..MaxHandles : send(i)

KeySpec == KeyInit /\ [][KeyNext]_vars

(****************** one call of get_overseerr_requests **********************)
\* get_overseerr_requests step by step: get_requests gives the upstream
\* requests, one future per request is handed to join_all, join_all polls
\* them and returns their outputs in the order of the futures.
MaxRequests == 3

\* an upstream request, before anything is known of its title
Upstream(q) == [f \in DOMAIN q \ {"title_reply"} |-> q[f]]

req3 == [media_type |-> "movie", id |-> 9, tmdb_id |-> 11, status |-> 1, media_status |-> 3,
         username |-> None, plex_username |-> Some("bob"), created_at |-> "2024-01-03"]

UpstreamRequests == {Upstream(req1), Upstream(req2), req3}

RequestsReplies ==
    {TransportError, Undecodable} \cup
    {Body("requests", l) : l \in SeqsUpTo(UpstreamRequests, MaxRequests)}

\* what GET /api/v1/{media_type}/{tmdb_id} can yield
TitleReplies == {TransportError, Undecodable, Body("title", <<"Matrix">>)}

\* join_all awaiting its futures one after another: a future is polled once
\* those before it are complete.
CanPollInTurn(k) == \A j \in 1..(k - 1) : futures_requests[j].pc = "done"

\* join_all polls every future each time it is polled, in order: the first
\* poll of a future waits for no reply of another.
CanPoll(k) == \A j \in 1..(k - 1) : futures_requests[j].pc # "start"

TtlInit ==
    /\ API_KEY = None
    /\ INIT = FALSE
    /\ handles = <<>>
    /\ sent = {}
    /\ clock = 200000
    /\ requests = <<>>
    /\ futures_requests = <<>>
    /\ overseerr_requests = <<>>
    /\ directory = <<>>
    /\ sent_keys = <<>>
    /\ item_replies = <<>>
    /\ library_infos = <<>>
    /\ library_size = <<>>
    /\ config = DefaultConfig
    /\ tasks = <<>>
    /\ format = "Prometheus"
    /\ phase = "get_requests"
    /\ pc = <<>>
    /\ op = <<>>
    /\ calls = <<>>
    /\ got = <<>>
    /\ part = <<>>
    /\ results = <<>>
    /\ response = NoResponse

\* self.get_requests().await: an error is logged and gives no request
get_requests(reply) ==
    /\ phase = "get_requests"
    /\ requests' = IF IsErr(reply) THEN <<>> ELSE reply.data
    /\ futures_requests' = [k \in DOMAIN requests' |-> [pc |-> "start", reply |-> None, out |-> None]]
    /\ phase' = "join_all"
    /\ UNCHANGED <<API_KEY, INIT, handles, sent, clock, config, tasks, format, pc, op, calls, got,
                   part, results, response, overseerr_requests,
                   library_locals>>

\* the first poll of future k: it runs to the await of get_media_title, whose
\* request goes out
poll(k) ==
    /\ phase = "join_all"
    /\ k \in DOMAIN futures_requests
    /\ futures_requests[k].pc = "start"
    /\ CanPoll(k)
    /\ futures_requests' = [futures_requests EXCEPT ![k].pc = "wait"]
    /\ UNCHANGED <<API_KEY, INIT, handles, sent, clock, config, tasks, format, phase, pc, op, calls,
                   got, part, results, response, requests, overseerr_requests,
                   library_locals>>

\* the title fetch of future k is answered: the future completes
title_reply(k, reply) ==
    /\ phase = "join_all"
    /\ k \in DOMAIN futures_requests
    /\ futures_requests[k].pc = "wait"
    /\ futures_requests' = [futures_requests EXCEPT
                               ![k] = [pc |-> "done", reply |-> Some(reply),
                                       out |-> Some(request_future(requests[k], reply))]]
    /\ UNCHANGED <<API_KEY, INIT, handles, sent, clock, config, tasks, format, phase, pc, op, calls,
                   got, part, results, response, requests, overseerr_requests,
                   library_locals>>

\* every future is complete: join_all returns the outputs in their order
join_all ==
    /\ phase = "join_all"
    /\ \A k \in DOMAIN futures_requests : futures_requests[k].pc = "done"
    /\ overseerr_requests' = [k \in DOMAIN futures_requests |-> futures_requests[k].out[1]]
    /\ phase' = "returned"
    /\ UNCHANGED <<API_KEY, INIT, handles, sent, clock, config, tasks, format, pc, op, calls, got,
                   part, results, response, requests, futures_requests,
                   library_locals>>

TtlNext ==
    \/ \E reply \in RequestsReplies : get_requests(reply)
    \/ \E k \in 1..MaxRequests : poll(k)
    \/ \E k \in 1..MaxRequests : \E reply \in TitleReplies : title_reply(k, reply)
    \/ join_all

TtlSpec == TtlInit /\ [][TtlNext]_vars

(******************** one call of get_all_library_size **********************)
\* get_all_library_size step by step: get_all_libraries gives the
\* directories, the loop calls get_library_items for one directory after
\* the other and pushes a LibraryInfos for each, and a failure on the way
\* returns an empty vector.
MaxDirectories == 3

\* a directory of the library container, before its items are asked for
Directory(d) == [f \in DOMAIN d \ {"items"} |-> d[f]]

plib_music == [key |-> "3", title |-> "Music", type_field |-> "artist"]

Directories == {Directory(plib_movies), Directory(plib_shows), plib_music}

LibrariesReplies ==
    {TransportError, Undecodable, Body("Default", <<>>)} \cup
    {Body("LibraryContainer", l) : l \in SeqsUpTo(Directories, MaxDirectories)}

\* what GET /library/sections/{key}/all can yield
ItemsReplies ==
    {TransportError, Undecodable, Body("Default", <<>>),
     Body("LibraryItemsContainer", <<[size |-> 2, metadata |-> <<>>]>>),
     Body("LibraryItemsContainer",
          <<[size |-> 2, metadata |->
               <<[variant |-> "LibraryMetadata", child_count |-> 2, leaf_count |-> 5],
                 [variant |-> "Default"],
                 [variant |-> "LibraryMetadata", child_count |-> 1, leaf_count |-> 3]>>]>>)}

\* get_library_items returned Err, or its container is not a LibraryItemsContainer
ItemsFailed(reply) == IsErr(reply) \/ reply.shape # "LibraryItemsContainer"

\* the directory with the reply to its items request
WithItems(d, reply) ==
    [f \in DOMAIN d \cup {"items"} |-> IF f = "items" THEN reply ELSE d[f]]

\* A loop that asks for the items of every directory before it looks at a reply.
CanSendAny(k) == k = Len(sent_keys) + 1

\* the loop asks for the items of directory k once the items of all the
\* directories before it are in library_infos
CanSend(k) == k = Len(sent_keys) + 1 /\ Len(sent_keys) = Len(library_infos)

LibInit ==
    /\ API_KEY = None
    /\ INIT = FALSE
    /\ handles = <<>>
    /\ sent = {}
    /\ clock = 200000
    /\ requests = <<>>
    /\ futures_requests = <<>>
    /\ overseerr_requests = <<>>
    /\ directory = <<>>
    /\ sent_keys = <<>>
    /\ item_replies = <<>>
    /\ library_infos = <<>>
    /\ library_size = <<>>
    /\ config = DefaultConfig
    /\ tasks = <<>>
    /\ format = "Prometheus"
    /\ phase = "get_all_libraries"
    /\ pc = <<>>
    /\ op = <<>>
    /\ calls = <<>>
    /\ got = <<>>
    /\ part = <<>>
    /\ results = <<>>
    /\ response = NoResponse

\* self.get_all_libraries().await and the match on the container: an error
\* or another container returns Vec::new()
get_all_libraries(reply) ==
    /\ phase = "get_all_libraries"
    /\ IF IsErr(reply) \/ reply.shape # "LibraryContainer"
       THEN /\ phase' = "returned"
            /\ UNCHANGED directory
       ELSE /\ phase' = "for"
            /\ directory' = reply.data
    /\ UNCHANGED <<API_KEY, INIT, handles, sent, clock, config, tasks, format, pc, op, calls, got,
                   part, results, response, title_locals, sent_keys, item_replies,
                   library_infos, library_size>>

\* the loop comes to directory k: self.get_library_items(&item.key) sends
\* its request
send_items(k) ==
    /\ phase = "for"
    /\ k \in DOMAIN directory
    /\ CanSend(k)
    /\ sent_keys' = Append(sent_keys, directory[k].key)
    /\ UNCHANGED <<API_KEY, INIT, handles, sent, clock, config, tasks, format, phase, pc, op, calls,
                   got, part, results, response, title_locals, directory, item_replies,
                   library_infos, library_size>>

\* the items request of the directory the loop is at is answered: a failure
\* returns Vec::new(), anything else pushes the LibraryInfos of the directory
items_reply(reply) ==
    /\ phase = "for"
    /\ Len(sent_keys) > Len(item_replies)
    /\ item_replies' = Append(item_replies, reply)
    /\ IF ItemsFailed(reply)
       THEN /\ phase' = "returned"
            /\ UNCHANGED library_infos
       ELSE /\ phase' = phase
            /\ library_infos' =
                  Append(library_infos,
                         PlexLibraryInfos(WithItems(directory[Len(item_replies) + 1], reply)))
    /\ UNCHANGED <<API_KEY, INIT, handles, sent, clock, config, tasks, format, pc, op, calls, got,
                   part, results, response, title_locals, directory, sent_keys, library_size>>

\* the loop is over: library_infos.into_iter().map(|item| item.into()).collect()
collect ==
    /\ phase = "for"
    /\ Len(library_infos) = Len(directory)
    /\ library_size' = library_infos
    /\ phase' = "returned"
    /\ UNCHANGED <<API_KEY, INIT, handles, sent, clock, config, tasks, format, pc, op, calls, got,
                   part, results, response, title_locals, directory, sent_keys, item_replies,
                   library_infos>>

LibNext ==
    \/ \E reply \in LibrariesReplies : get_all_libraries(reply)
    \/ \E k \in 1..MaxDirectories : send_items(k)
    \/ \E reply \in ItemsReplies : items_reply(reply)
    \/ collect

LibSpec == LibInit /\ [][LibNext]_vars

(******************************* claims *************************************)
Ended == phase \in {"collected", "responded", "aborted"}

\* every reply the tasks of the scrape have had so far was a failure
AllCallsFailed ==
    /\ \E i \in Idx : got[i] # <<>>
    /\ \A i \in Idx : \A k \in DOMAIN got[i] : got[i][k]

\* C1: failure isolation.  A scrape in which every adapter call fails
\* (transport error, undecodable body, unexpected payload shape) is never
\* aborted, and its response is a 200 with an encoded document.
C1_FailureIsolation ==
    AllCallsFailed =>
        /\ phase # "aborted"
        /\ phase = "responded" => response.status = 200 /\ response.body.eof

\* C2: scrape deadline.  A scrape whose unfinished tasks all wait on backends
\* that never answer still moves on: the executor stops waiting, so the
\* handler is never left without a next step.
C2_DeadlineEndsScrape ==
    (phase = "fetching" /\ \A i \in Idx : pc[i] \in {"done", "stalled"}) => ENABLED Next

\* C3: every adapter call returns to the executor, whatever the upstream
\* answers: no task future unwinds.
C3_AdaptersReturn == \A i \in Idx : pc[i] # "panicked"

\* C5: the executor is infallible.  Once a scrape has stopped fetching,
\* process_tasks has returned one result per task, each of the variant and
\* instance name of its task, with an empty payload where the adapter failed.
C5_ExecutorInfallible ==
    Ended =>
        /\ Len(results) = Len(tasks)
        /\ \A i \in Idx :
              /\ results[i].variant = tasks[i].kind
              /\ results[i].name = tasks[i].name
              /\ got[i][1] => results[i].items = <<>>

\* C6: no retries within a scrape.  Each adapter call of a task sends its
\* request at most once, exactly once when the call is over, also when the
\* request failed; the counters start again only with the next GET /metrics.
C6_NoRetries ==
    \A i \in Idx :
        /\ Len(got[i]) <= Len(Ops(tasks[i].kind))
        /\ \A k \in DOMAIN calls[i] :
              /\ calls[i][k] <= 1
              /\ k \in DOMAIN got[i] => calls[i][k] = 1
              /\ phase \in {"collected", "responded"} => calls[i][k] = 1

\* a scrape came to its response although a request of it had failed
C6_Witness ==
    /\ phase = "responded"
    /\ \E i \in Idx : \E k \in DOMAIN got[i] : got[i][k] /\ calls[i][k] = 1

\* C7: all tasks start concurrently.  While the scrape is fetching, every
\* task that has not sent its request can send it and every task that waits
\* can take any reply, whatever the other tasks are doing; the executor
\* returns only when every task is done.
C7_Concurrent ==
    /\ phase = "fetching" =>
          \A i \in Idx :
             /\ pc[i] = "start" => ENABLED Issue(i)
             /\ pc[i] = "wait" =>
                   \A reply \in Replies(Ops(tasks[i].kind)[op[i]]) : ENABLED Reply(i, reply)
    /\ ENABLED Collect => \A i \in Idx : pc[i] = "done"
    /\ phase \in {"collected", "responded"} => \A i \in Idx : pc[i] = "done"

\* a later task has completed while an earlier one is suspended for good
C7_Witness ==
    /\ phase = "fetching"
    /\ \E i, j \in Idx : i < j /\ pc[i] = "stalled" /\ pc[j] = "done"

\* The series of the encoded document under one family name, over every
\* descriptor of that name.
AllSeries(name) ==
    LET families == response.body.families
    IN  UNION {{[labels |-> l, value |-> families[i].series[l]] :
                   l \in DOMAIN families[i].series} :
               i \in {j \in DOMAIN families : families[j].name = name}}

SessionVariants == {"PlexSession", "JellyfinSession"}

MetricName(r, suffix) == "homers_" \o SessionPrefix(r.kind) \o suffix

\* C4: when a scrape's results hold two results of one kind from different
\* instances, the encoded document has every metric family name exactly once.
C4_FamilyNamesOnce ==
    (/\ phase = "responded"
     /\ \E i, j \in DOMAIN results : i # j /\ results[i].variant = results[j].variant)
    => \A i, j \in DOMAIN response.body.families :
          i # j => response.body.families[i].name # response.body.families[j].name

\* C8, as the specification states it: session_count equals the number of session_info series, for
\* Tautulli and per instance name for Plex and Jellyfin, for every list of
\* sessions.
C8_CountEqualsInfoSeries ==
    phase = "responded" =>
        \A i \in DOMAIN results :
           LET r == results[i]
           IN  /\ r.variant = "TautulliSession" =>
                     \A p \in AllSeries("homers_tautulli_session_count") :
                        p.value = Cardinality(AllSeries("homers_tautulli_session_info"))
               /\ r.variant \in SessionVariants =>
                     \A p \in AllSeries(MetricName(r, "_session_count")) :
                        p.labels.name = r.name =>
                           p.value = Cardinality({q \in AllSeries(MetricName(r, "_session_info")) :
                                                     q.labels.name = r.name})

TautulliInfoLabels(s) ==
    [user |-> s.user, title |-> s.title, state |-> s.state, media_type |-> s.media_type,
     quality |-> s.quality, quality_profile |-> s.quality_profile,
     video_stream |-> s.video_stream]

\* C8, as the code has it: session_count is the length of the session list; the number of
\* session_info series is the number of distinct info label sets among the
\* sessions; the two are equal exactly when no two sessions share all their
\* info labels.
C8_CountIsLength ==
    phase = "responded" =>
        \A i \in DOMAIN results :
           LET r == results[i]
               n == Len(r.items)
           IN  /\ r.variant = "TautulliSession" =>
                     LET infos == AllSeries("homers_tautulli_session_info")
                         distinct == {TautulliInfoLabels(r.items[k]) : k \in DOMAIN r.items}
                     IN  /\ AllSeries("homers_tautulli_session_count")
                              = {[labels |-> EmptyLabel, value |-> n]}
                         /\ Cardinality(infos) = Cardinality(distinct)
                         /\ Cardinality(infos) = n <=> Cardinality(distinct) = n
               /\ r.variant \in SessionVariants =>
                     LET infos == {q \in AllSeries(MetricName(r, "_session_info")) :
                                      q.labels.name = r.name}
                         distinct == {SessionInfoLabels(r, r.items[k]) : k \in DOMAIN r.items}
                     IN  /\ {p \in AllSeries(MetricName(r, "_session_count")) :
                                p.labels.name = r.name}
                              = {[labels |-> [name |-> r.name], value |-> n]}
                         /\ Cardinality(infos) = Cardinality(distinct)
                         /\ Cardinality(infos) = n <=> Cardinality(distinct) = n

\* two Plex sessions with the same info labels: one series, a count of 2
C8_Witness ==
    /\ phase = "responded"
    /\ \E i \in DOMAIN results :
          /\ results[i].variant = "PlexSession"
          /\ Len(results[i].items) = 2
          /\ Cardinality(AllSeries("homers_plex_session_info")) = 1
          /\ \E p \in AllSeries("homers_plex_session_count") : p.value = 2

KbpsWhere(sessions, locations) ==
    SumSeq([k \in DOMAIN sessions |->
              IF sessions[k].bandwidth.location \in locations
              THEN sessions[k].bandwidth.bandwidth ELSE 0])

\* C9: for a Plex instance the LAN and WAN bandwidth series are both there,
\* each carries the whole sum of its location, and together they are the sum
\* over the sessions whose bandwidth location is not unknown.
C9_BandwidthPartition ==
    phase = "responded" =>
        \A i \in DOMAIN results :
           LET r == results[i]
               of(location) == {p \in AllSeries("homers_plex_session_bandwidth") :
                                   p.labels = [name |-> r.name, location |-> location]}
           IN  r.variant = "PlexSession" =>
                  /\ of("LAN") = {[labels |-> [name |-> r.name, location |-> "LAN"],
                                   value |-> KbpsWhere(r.items, {"Lan"})]}
                  /\ of("WAN") = {[labels |-> [name |-> r.name, location |-> "WAN"],
                                   value |-> KbpsWhere(r.items, {"Wan"})]}
                  /\ \A l \in of("LAN"), w \in of("WAN") :
                        l.value + w.value = KbpsWhere(r.items, {"Lan", "Wan"})

\* a LAN session and a session of unknown location, both with bandwidth
C9_Witness ==
    /\ phase = "responded"
    /\ \E i \in DOMAIN results :
          /\ results[i].variant = "PlexSession"
          /\ KbpsWhere(results[i].items, {"Lan"}) > 0
          /\ KbpsWhere(results[i].items, {"Unknown"}) > 0
          /\ \E p \in AllSeries("homers_plex_session_bandwidth") :
                p.labels.location = "WAN" /\ p.value = 0

UsersWith(r, value) ==
    {q.labels.user : q \in {p \in AllSeries(MetricName(r, "_user_active")) :
                               p.labels.name = r.name /\ p.value = value}}

KnownUsers(r) == {r.users[k].name : k \in DOMAIN r.users}

SessionUsers(r) == {r.items[k].user : k \in DOMAIN r.items}

\* C10, as the specification states it: the users with user_active 1 and those with 0 are disjoint
\* and all of them are known users of the instance.
C10_ActiveWithinKnown ==
    phase = "responded" =>
        \A i \in DOMAIN results :
           results[i].variant \in SessionVariants =>
              /\ UsersWith(results[i], 1) \cap UsersWith(results[i], 0) = {}
              /\ UsersWith(results[i], 1) \cup UsersWith(results[i], 0)
                    \subseteq KnownUsers(results[i])

\* C10, as the code has it: the two sets are disjoint; the users with 1 are the users of
\* the sessions, known or not; the users with 0 are the known users without
\* a session.
C10_ActiveComplement ==
    phase = "responded" =>
        \A i \in DOMAIN results :
           results[i].variant \in SessionVariants =>
              /\ UsersWith(results[i], 1) \cap UsersWith(results[i], 0) = {}
              /\ UsersWith(results[i], 1) = SessionUsers(results[i])
              /\ UsersWith(results[i], 0) = KnownUsers(results[i]) \ SessionUsers(results[i])

\* a session of a user the instance does not list, beside a known idle user
C10_Witness ==
    /\ phase = "responded"
    /\ \E i \in DOMAIN results :
          /\ results[i].variant \in SessionVariants
          /\ SessionUsers(results[i]) \ KnownUsers(results[i]) # {}
          /\ KnownUsers(results[i]) \cap SessionUsers(results[i]) # {}
          /\ UsersWith(results[i], 0) # {}

UserActiveSeries(r) ==
    {p \in AllSeries(MetricName(r, "_user_active")) : p.labels.name = r.name}

\* C11: in a Plex/Jellyfin session result every user with a session has a
\* user_active series of value 1, every known user without a session has one
\* of value 0, and no known user is without a series.
C11_InactiveUsers ==
    phase = "responded" =>
        \A i \in DOMAIN results :
           LET r == results[i]
               at(u, v) == [labels |-> [name |-> r.name, user |-> u], value |-> v]
           IN  r.variant \in SessionVariants =>
                  /\ \A u \in SessionUsers(r) : at(u, 1) \in UserActiveSeries(r)
                  /\ \A u \in KnownUsers(r) \ SessionUsers(r) : at(u, 0) \in UserActiveSeries(r)
                  /\ \A u \in KnownUsers(r) : \E p \in UserActiveSeries(r) : p.labels.user = u

\* two known users, one of them in session and the other not
C11_Witness ==
    /\ phase = "responded"
    /\ \E i \in DOMAIN results :
          /\ results[i].variant \in SessionVariants
          /\ Cardinality(KnownUsers(results[i])) = 2
          /\ \E u \in KnownUsers(results[i]) \cap SessionUsers(results[i]) :
                \E p \in UserActiveSeries(results[i]) : p.labels.user = u /\ p.value = 1
          /\ \E u \in KnownUsers(results[i]) \ SessionUsers(results[i]) :
                \E p \in UserActiveSeries(results[i]) : p.labels.user = u /\ p.value = 0

RequestVariants == {"Overseerr", "Jellyseerr"}

RequestLabels(q) ==
    [media_type |-> q.media_type, requested_by |-> get_username(q),
     media_title |-> IF IsErr(q.title_reply) THEN "Unknown" ELSE q.title_reply.data[1]]

\* the value of the series of family name that carries the label set labels
ValuesAt(name, labels) == {p.value : p \in {q \in AllSeries(name) : q.labels = labels}}

\* C12: whatever codes upstream sends, request_status is in 1..3 and
\* media_status in 1..5 for every request emitted, and a code inside its range
\* is the value of the request's gauge (the last request of a label set
\* decides, as all of them share its series).
C12_StatusCodes ==
    phase = "responded" =>
        \A i \in DOMAIN results :
           LET r == results[i]
               request_status == "homers_" \o r.kind \o "_request_status"
               media_status == "homers_" \o r.kind \o "_media_status"
           IN  r.variant \in RequestVariants =>
                  /\ \A p \in AllSeries(request_status) : p.value \in {1, 2, 3}
                  /\ \A p \in AllSeries(media_status) : p.value \in {1, 2, 3, 4, 5}
                  /\ Cardinality(AllSeries(request_status)) = Cardinality(AllSeries(media_status))
                  /\ \A reqs \in EncRequestLists :
                        r.items = get_overseerr_requests(Body("requests", reqs)).out =>
                           \A k \in DOMAIN reqs :
                              (\A j \in DOMAIN reqs : j > k => RequestLabels(reqs[j]) # RequestLabels(reqs[k]))
                              => /\ ValuesAt(request_status, RequestLabels(reqs[k])) # {}
                                 /\ reqs[k].status \in {1, 2, 3} =>
                                       ValuesAt(request_status, RequestLabels(reqs[k])) = {reqs[k].status}
                                 /\ reqs[k].media_status \in {1, 2, 3, 4, 5} =>
                                       ValuesAt(media_status, RequestLabels(reqs[k]))
                                          = {reqs[k].media_status}

\* a request whose upstream codes are outside the enums, next to one inside
C12_Witness ==
    /\ phase = "responded"
    /\ \E i \in DOMAIN results :
          /\ results[i].variant \in RequestVariants
          /\ \E q \in EncRequests :
                /\ q.status = 6 /\ q.media_status = -1
                /\ results[i].items = get_overseerr_requests(Body("requests", <<q, req2>>)).out
          /\ \E p \in AllSeries("homers_" \o results[i].kind \o "_media_status") : p.value = 1

\* C13: every movie the Radarr adapter emits has missing_available exactly
\* when it has no file and is available, and carries the title, has_file,
\* monitored and is_available of the upstream movie at its position.
C13_MissingAvailable ==
    [][\A i \in 1..MaxTasks : \A reply \in Replies("movie") :
          (Reply(i, reply) /\ tasks[i].kind = "Radarr") =>
             LET upstream == IF IsErr(reply) THEN <<>> ELSE reply.data
                 movies == part'[i][1].out
             IN  /\ Len(movies) = Len(upstream)
                 /\ \A k \in DOMAIN movies :
                       /\ movies[k].missing_available
                             <=> (~movies[k].has_file /\ movies[k].is_available)
                       /\ movies[k].title = upstream[k].title
                       /\ movies[k].has_file = upstream[k].has_file
                       /\ movies[k].monitored = upstream[k].monitored
                       /\ movies[k].is_available = upstream[k].is_available]_vars

\* the adapter has returned a movie that is missing and available beside one
\* without file that is not available yet
C13_Witness ==
    \E i \in Idx :
       /\ tasks[i].kind = "Radarr"
       /\ part[i] # <<>>
       /\ \E k, l \in DOMAIN part[i][1].out :
             /\ part[i][1].out[k].missing_available
             /\ ~part[i][1].out[l].has_file
             /\ ~part[i][1].out[l].is_available
             /\ ~part[i][1].out[l].missing_available

\* C14: for a Radarr result named N, movies_total is the number of movies,
\* monitored_total the number of monitored ones and missing_total the number
\* with missing_available; an empty list gives the three with value 0 and no
\* per-movie series.
C14_RadarrAggregates ==
    phase = "responded" =>
        \A i \in DOMAIN results :
           LET r == results[i]
               only(v) == {[labels |-> [name |-> r.name], value |-> v]}
               named(family) == {p \in AllSeries(family) : p.labels.name = r.name}
               movies == {k \in DOMAIN r.items : TRUE}
           IN  r.variant = "Radarr" =>
                  /\ named("homers_radarr_movies_total") = only(Len(r.items))
                  /\ named("homers_radarr_movies_monitored_total")
                        = only(Cardinality({k \in movies : r.items[k].monitored}))
                  /\ named("homers_radarr_movies_missing_total")
                        = only(Cardinality({k \in movies : r.items[k].missing_available}))
                  /\ r.items = <<>> =>
                        /\ named("homers_radarr_movie_has_file") = {}
                        /\ named("homers_radarr_movie_monitored") = {}
                        /\ named("homers_radarr_movie_available") = {}

\* two movies without file, one of them available: a missing total of 1
C14_Witness ==
    /\ phase = "responded"
    /\ \E i \in DOMAIN results :
          /\ results[i].variant = "Radarr"
          /\ Len(results[i].items) = 2
          /\ \A k \in 1..2 : ~results[i].items[k].has_file
          /\ \E p \in AllSeries("homers_radarr_movies_missing_total") : p.value = 1
          /\ \E p \in AllSeries("homers_radarr_movies_total") : p.value = 2

EndsWithSlash(s) == s # <<>> /\ s[Len(s)] = "/"

MapSections == {"sonarr", "radarr", "readarr", "lidarr", "plex", "jellyfin"}

\* the address strings the configuration c supplies
SuppliedAddresses(c) ==
    {c[f][1] : f \in {g \in DOMAIN c \ MapSections : c[g] # None}}
    \cup UNION {{c[f][1][j].address : j \in DOMAIN c[f][1]} :
                   f \in {g \in MapSections : c[g] # None}}

\* C15: trailing-slash normalisation is idempotent on every string, and a
\* string without a trailing slash comes back unchanged.
C15_StripIdempotent ==
    [][configure_axum =>
          \A s \in SuppliedAddresses(config) :
             /\ remove_trailing_slash(remove_trailing_slash(s)) = remove_trailing_slash(s)
             /\ ~EndsWithSlash(s) => remove_trailing_slash(s) = s]_vars

\* C16: once the registry is built, no adapter handle of a task holds a base
\* address that ends with a slash.
C16_NoTrailingSlash == \A i \in DOMAIN tasks : ~EndsWithSlash(tasks[i].address)

SectionOf(kind) ==
    CASE kind \in {"SonarrToday", "SonarrMissing"} -> "sonarr"
      [] kind = "Radarr" -> "radarr"
      [] kind = "Readarr" -> "readarr"
      [] kind = "Lidarr" -> "lidarr"
      [] kind \in {"PlexSession", "PlexLibrary"} -> "plex"
      [] kind \in {"JellyfinSession", "JellyfinLibrary"} -> "jellyfin"
      [] kind \in {"TautulliSession", "TautulliLibrary", "TautulliHistory"} -> "tautulli"
      [] kind = "Overseerr" -> "overseerr"
      [] kind = "Jellyseerr" -> "jellyseerr"

\* how many tasks of a kind and instance name the configuration c asks for
Expected(c, kind, name) ==
    LET section == c[SectionOf(kind)]
    IN  IF section = None THEN 0
        ELSE IF SectionOf(kind) \in MapSections
        THEN IF \E j \in DOMAIN section[1] : section[1][j].name = name THEN 1 ELSE 0
        ELSE IF name = NoName THEN 1 ELSE 0

CountOf(ts, kind, name) ==
    Cardinality({i \in DOMAIN ts : ts[i].kind = kind /\ ts[i].name = name})

RECURSIVE SplitOn(_, _)
\* the pieces of a text between the occurrences of a separator token
SplitOn(text, sep) ==
    IF \A i \in DOMAIN text : text[i] # sep THEN <<text>>
    ELSE LET at == CHOOSE i \in DOMAIN text :
                      text[i] = sep /\ \A j \in 1..(i - 1) : text[j] # sep
         IN  <<SubSeq(text, 1, at - 1)>> \o SplitOn(SubSeq(text, at + 1, Len(text)), sep)

\* the sub-type of a media range: what stands between its slash and its
\* parameters
SubType(range) ==
    LET parts == SplitOn(Head(SplitOn(range, ";")), "/")
    IN  IF Len(parts) = 2 THEN parts[2] ELSE <<>>

\* the accept header names a media type whose sub-type is openmetrics-text
NamesOpenmetricsText(accept) ==
    /\ accept # None
    /\ accept[1].readable
    /\ \E k \in DOMAIN SplitOn(accept[1].text, ",") :
          SubType(SplitOn(accept[1].text, ",")[k]) = <<"openmetrics", "-", "text">>

\* C18: a scrape is encoded as OpenMetrics exactly when its accept header
\* names a media type of sub-type openmetrics-text, as Prometheus otherwise,
\* and a 200 response carries the content type of the format.
C18_ContentNegotiation ==
    [][/\ \A accept \in AcceptHeaders :
             StartScrape(accept) =>
                (format' = "OpenMetrics" <=> NamesOpenmetricsText(accept))
       /\ Respond /\ response'.status = 200 =>
             response'.content_type
                = IF format = "OpenMetrics"
                  THEN "application/openmetrics-text; version=1.0.0; charset=utf-8"
                  ELSE "text/plain; version=0.0.4; charset=utf-8"]_vars

\* C19: the body follows the negotiated format: the OpenMetrics body ends
\* with the EOF trailer, the Prometheus body has none, so the body agrees
\* with the content type sent with it.
C19_BodyFollowsFormat ==
    (phase = "responded" /\ response.status = 200) =>
        /\ response.body.eof <=> format = "OpenMetrics"
        /\ response.body.eof
              <=> response.content_type
                     = "application/openmetrics-text; version=1.0.0; charset=utf-8"

\* C20: a scheduling error of the executor gives a 500 with the text about
\* fetching provider data, an encoding failure a 500 with the text about
\* formatting; both are text/plain and carry no metrics; every other case
\* gives a 200.
C20_ErrorResponses ==
    [][Respond =>
          /\ phase = "join_error" =>
                /\ response'.status = 500
                /\ response'.text = "Error while fetching provider data. Check the logs."
          /\ phase = "encode_error" =>
                /\ response'.status = 500
                /\ response'.text = "Error formatting metrics. Check the logs."
          /\ response'.status = 500 =>
                /\ response'.content_type = "text/plain; version=0.0.4; charset=utf-8"
                /\ response'.body.families = <<>>
                /\ ~response'.body.eof
          /\ phase \notin {"join_error", "encode_error"} =>
                response'.status = 200 /\ response'.text = ""]_vars

\* an OpenMetrics scrape whose encoding failed has been answered with the 500
\* about formatting
C20_Witness ==
    /\ phase = "responded"
    /\ format = "OpenMetrics"
    /\ results # <<>>
    /\ response.status = 500
    /\ response.text = "Error formatting metrics. Check the logs."

\* The label sets of the families called name in a response body.
LabelsIn(body, name) ==
    UNION {DOMAIN body.families[i].series :
              i \in {j \in DOMAIN body.families : body.families[j].name = name}}

\* C21: nothing persists between scrapes.  The document of a scrape is the
\* encoding, from an empty registry, of the results of that scrape alone,
\* whatever the last response held; when the backends of the scrape report
\* no item, the document has no per-item series; and no step after startup
\* changes the task registry.
C21_NothingPersists ==
    [][/\ phase # "startup" => tasks' = tasks
       /\ Respond =>
             /\ response'.body.families
                   = RegisterAll(<<>>, Flatten([i \in DOMAIN results |->
                                                  format_as_prometheus(results[i])]))
             /\ (\A i \in DOMAIN results : results[i].items = <<>>) =>
                    \A name \in {"homers_radarr_movie_has_file", "homers_sonarr_today_episode",
                                 "homers_plex_session_info", "homers_jellyfin_session_info",
                                 "homers_plex_library_count", "homers_overseerr_request_status",
                                 "homers_jellyseerr_request_status",
                                 "homers_tautulli_session_info"} :
                        LabelsIn(response'.body, name) = {}]_vars

\* a scrape whose backends report nothing has its results, and the response
\* of the scrape before it, which carried per-item series, is the last one sent
C21_Witness ==
    /\ phase = "collected"
    /\ results # <<>>
    /\ \A i \in DOMAIN results : results[i].items = <<>>
    /\ response.status = 200
    /\ \E name \in {"homers_radarr_movie_has_file", "homers_plex_session_info",
                    "homers_overseerr_request_status"} :
          LabelsIn(response.body, name) # {}
    /\ ENABLED Respond

\* C22: encoder determinism.  Whatever happens in between, time passing
\* included, as long as the task results and the format stay the same the
\* encoder makes the same document of them (families are maps from label
\* sets to values, so the order of series plays no part).
C22_EncoderDeterminism ==
    [][(results' = results /\ format' = format)
          => format_metrics(results)' = format_metrics(results)]_vars

\* C23: secrets are keyed on the adapter instance.  Every request a Sonarr
\* handle has sent carries the API key that handle was constructed with,
\* whatever other handles were constructed before it.
C23_KeyPerInstance ==
    \A r \in sent : r.x_api_key = handles[r.handle].api_key

\* The SessionMetadata entries of a sessions payload, in payload order.
SessionMetas(reply) == SelectSeq(reply.data, LAMBDA m : m.variant = "SessionMetadata")

\* The first video stream of the first part of a session.
VideoStreamOf(meta) ==
    LET p == meta.media[1].part[1]
    IN  p.stream[CHOOSE k \in DOMAIN p.stream :
                    /\ p.stream[k].stream_type = 1
                    /\ \A j \in DOMAIN p.stream : p.stream[j].stream_type = 1 => k <= j]

\* The rule of the stream decision: direct play for the container decision
\* directplay; for any other one, direct stream when the video stream is
\* copied, transcode otherwise.
DecisionRule(meta) ==
    IF meta.media[1].part[1].decision = "directplay" THEN "Direct Play"
    ELSE IF VideoStreamOf(meta).decision = Some("copy") THEN "Direct Stream"
    ELSE "Transcode"

\* C24: Plex stream decision.  Every session the Plex adapter returns for a
\* sessions payload has the stream decision the rule gives for the container
\* decision and the video-stream decision of its payload entry.
C24_PlexStreamDecision ==
    [][\A i \in DOMAIN tasks : \A reply \in AllAdapterReplies :
          (/\ Reply(i, reply)
           /\ tasks[i].kind = "PlexSession"
           /\ op[i] = 1
           /\ pc'[i] # "panicked"
           /\ reply.k = "body"
           /\ reply.shape = "ActivityContainer")
          => LET metas == SessionMetas(reply)
                 sessions == part'[i][1].out
             IN  /\ Len(sessions) = Len(metas)
                 /\ \A k \in DOMAIN metas :
                       sessions[k].stream_decision = DecisionRule(metas[k])]_vars

LibraryVariants == {"PlexLibrary", "JellyfinLibrary"}

\* The sum of f over the libraries of a media type in a library result.
SumOver(r, media_type, f(_)) ==
    SumSeq([k \in DOMAIN r.items |->
              IF r.items[k].media_type = media_type THEN f(r.items[k]) ELSE 0])

\* C25: library aggregates.  For every library result of kind plex or
\* jellyfin the document has the gauges movie_count, show_count,
\* season_count and episode_count of that kind: the sum of count over movie
\* libraries, of count over show libraries, of child_count and of
\* grand_child_count over show libraries, a missing count adding 0.
C25_LibraryAggregates ==
    (phase = "responded" /\ response.status = 200) =>
        \A i \in DOMAIN results :
           LET r == results[i]
               gauge(suffix) == ValuesAt("homers_" \o r.kind \o suffix, EmptyLabel)
           IN  r.variant \in LibraryVariants =>
                  /\ SumOver(r, "Movie", LAMBDA lib : lib.count) \in gauge("_movie_count")
                  /\ SumOver(r, "Show", LAMBDA lib : lib.count) \in gauge("_show_count")
                  /\ SumOver(r, "Show", LAMBDA lib : UnwrapOr0(lib.child_count))
                        \in gauge("_season_count")
                  /\ SumOver(r, "Show", LAMBDA lib : UnwrapOr0(lib.grand_child_count))
                        \in gauge("_episode_count")

\* The sum of the values of a set of series.
RECURSIVE SumValues(_)
SumValues(series) ==
    IF series = {} THEN 0
    ELSE LET p == CHOOSE q \in series : TRUE
         IN  p.value + SumValues(series \ {p})

\* The user a history entry is attributed to.
AttributedTo(entry) ==
    IF entry.friendly_name # "" THEN entry.friendly_name ELSE entry.user

C27_RequestRecords ==
    /\ phase = "join_all" =>
          \A k \in DOMAIN futures_requests :
             (/\ futures_requests[k].pc = "start"
              /\ \A j \in 1..(k - 1) : futures_requests[j].pc # "start") => ENABLED poll(k)
    /\ phase = "returned" =>
          /\ Len(overseerr_requests) = Len(requests)
          /\ \A k \in DOMAIN requests :
                LET q == requests[k]
                    o == overseerr_requests[k]
                    reply == futures_requests[k].reply[1]
                IN  /\ o.media_id = q.id
                    /\ o.media_type = q.media_type
                    /\ o.requested_at = q.created_at
                    /\ o.requested_by = get_username(q)
                    /\ o.status = RequestStatusFrom(q.status)
                    /\ o.media_status = MediaStatusFrom(q.media_status)
                    /\ IsErr(reply) => o.media_title = "Unknown"
                    /\ ~IsErr(reply) => o.media_title = reply.data[1]

\* three requests returned: the title fetch of the second failed, those of
\* the first and the third did not
C27_Witness ==
    /\ phase = "returned"
    /\ Len(requests) = 3
    /\ requests[1].id # requests[2].id
    /\ IsErr(futures_requests[2].reply[1])
    /\ overseerr_requests[2].media_title = "Unknown"
    /\ overseerr_requests[1].media_title = "Matrix"
    /\ overseerr_requests[3].media_title = "Matrix"

\* C28: for every Overseerr or Jellyseerr result, {kind}_requests_total is
\* the number of requests and is the sum of {kind}_requests_pending_total,
\* {kind}_requests_approved_total and {kind}_requests_declined_total; for a
\* result with no request the four are emitted with the value 0.
C28_RequestAggregates ==
    phase = "responded" =>
        \A i \in DOMAIN results :
           LET r == results[i]
               at(suffix) == ValuesAt("homers_" \o r.kind \o suffix, [name |-> r.kind])
           IN  r.variant \in RequestVariants =>
                  /\ at("_requests_total") = {Len(r.items)}
                  /\ \E pending, approved, declined \in 0..Len(r.items) :
                        /\ at("_requests_pending_total") = {pending}
                        /\ at("_requests_approved_total") = {approved}
                        /\ at("_requests_declined_total") = {declined}
                        /\ Len(r.items) = pending + approved + declined
                  /\ r.items = <<>> =>
                        /\ at("_requests_pending_total") = {0}
                        /\ at("_requests_approved_total") = {0}
                        /\ at("_requests_declined_total") = {0}

\* three requests, one pending, one approved and one declined
C28_Witness ==
    /\ phase = "responded"
    /\ \E i \in DOMAIN results :
          /\ results[i].variant \in RequestVariants
          /\ Len(results[i].items) = 3
          /\ \A suffix \in {"_requests_pending_total", "_requests_approved_total",
                            "_requests_declined_total"} :
                ValuesAt("homers_" \o results[i].kind \o suffix, [name |-> results[i].kind]) = {1}

SessionsOps == {"plex_sessions", "jellyfin_sessions"}

UsersOps == {"plex_statistics", "jellyfin_users"}

\* every known user of a result without a session has user_active 0
AllUsersInactive ==
    \A i \in DOMAIN results :
       LET r == results[i]
       IN  (r.variant \in SessionVariants /\ r.items = <<>>) =>
              \A u \in KnownUsers(r) :
                 [labels |-> [name |-> r.name, user |-> u], value |-> 0] \in UserActiveSeries(r)

\* C29: in a PlexSession or JellyfinSession task the sessions are fetched
\* first and the users second; a failed users fetch gives an empty user list
\* and leaves what the sessions fetch returned, a failed sessions fetch gives
\* an empty session list and the users fetch still runs and returns the
\* users upstream lists; the result holds both lists as they were returned,
\* and with no session every known user is reported with user_active 0.
C29_IndependentFetches ==
    [][/\ \A i \in 1..MaxTasks : \A reply \in AllAdapterReplies :
             (Reply(i, reply) /\ tasks[i].kind \in SessionVariants) =>
                LET opname == Ops(tasks[i].kind)[op[i]]
                    failed == Failed(opname, reply)
                IN  /\ op[i] = 1 => (opname \in SessionsOps /\ part[i] = <<>>)
                    /\ op[i] = 2 => (opname \in UsersOps /\ Len(part[i]) = 1)
                    /\ (op[i] = 1 /\ failed) =>
                          /\ part'[i] = <<Ret(<<>>)>>
                          /\ op'[i] = 2 /\ pc'[i] = "start" /\ phase' = "fetching"
                    /\ (op[i] = 2 /\ failed) => part'[i] = <<part[i][1], Ret(<<>>)>>
                    /\ (op[i] = 2 /\ ~failed) =>
                          /\ part'[i][1] = part[i][1]
                          /\ [j \in DOMAIN reply.data |-> reply.data[j].name]
                                = [j \in DOMAIN part'[i][2].out |-> part'[i][2].out[j].name]
       /\ Collect =>
             \A i \in Idx :
                tasks[i].kind \in SessionVariants =>
                   /\ results'[i].items = part[i][1].out
                   /\ results'[i].users = part[i][2].out
       /\ Respond => AllUsersInactive']_vars

\* the sessions fetch failed and the users fetch did not: the result has no
\* session and two users, both reported with user_active 0
C29_Witness ==
    /\ phase = "responded"
    /\ \E i \in Idx :
          /\ tasks[i].kind \in SessionVariants
          /\ got[i] = <<TRUE, FALSE>>
          /\ results[i].items = <<>>
          /\ Cardinality(KnownUsers(results[i])) = 2
          /\ \A p \in UserActiveSeries(results[i]) : p.value = 0
          /\ Cardinality(UserActiveSeries(results[i])) = 2

\* the LibraryMetadata entries of the items container a reply carries
LibraryMetas(reply) ==
    SelectSeq(reply.data[1].metadata, LAMBDA m : m.variant = "LibraryMetadata")

\* C30: the items of the directories are asked for one after another in
\* directory order, each once the directory before it has been answered and
\* matched; as soon as a fetch fails or its container does not match, the
\* operation returns the empty vector, whatever was fetched before, and asks
\* for nothing more; otherwise it returns one LibraryCount per directory, in
\* order, whose child and grand-child counts are the sums over the metadata
\* entries for a show library and absent for every other type.
C30_AllOrNothing ==
    /\ Len(sent_keys) <= Len(directory)
    /\ \A k \in DOMAIN sent_keys : sent_keys[k] = directory[k].key
    /\ Len(item_replies) <= Len(sent_keys)
    /\ Len(sent_keys) <= Len(library_infos) + 1
    /\ \A k \in DOMAIN item_replies : ItemsFailed(item_replies[k]) => k = Len(item_replies)
    /\ phase = "returned" =>
          IF directory = <<>> \/ \E k \in DOMAIN item_replies : ItemsFailed(item_replies[k])
          THEN library_size = <<>>
          ELSE /\ Len(library_size) = Len(directory)
               /\ Len(item_replies) = Len(directory)
               /\ \A k \in DOMAIN directory :
                     LET d == directory[k]
                         c == library_size[k]
                         metas == LibraryMetas(item_replies[k])
                     IN  /\ c.name = d.title
                         /\ c.count = item_replies[k].data[1].size
                         /\ d.type_field = "show" =>
                               /\ c.child_count
                                     = Some(SumSeq([j \in DOMAIN metas |-> metas[j].child_count]))
                               /\ c.grand_child_count
                                     = Some(SumSeq([j \in DOMAIN metas |-> metas[j].leaf_count]))
                         /\ d.type_field # "show" =>
                               (c.child_count = None /\ c.grand_child_count = None)

\* three directories: the items of the first two were fetched and counted,
\* the fetch of the third failed, and the operation returned nothing
C30_Witness ==
    /\ phase = "returned"
    /\ Len(directory) = 3
    /\ Len(library_infos) = 2
    /\ library_infos[2].child_count = Some(3)
    /\ Len(item_replies) = 3
    /\ ItemsFailed(item_replies[3])
    /\ library_size = <<>>

====
